---- MODULE Spec2Model ----
(***************************************************************************)
(* LewanLib: the ServoBus protocol engine (lewanlib/bus.py).               *)
(*                                                                         *)
(* Callers (threads) run bus calls against one shared serial transport.    *)
(* Every transport operation of the code (reset_input_buffer, write, read) *)
(* and every acquisition or release of the bus lock is one step.  The      *)
(* transport is the environment: bytes written are logged on `wire`, the   *)
(* device's answer travels in `inflight` chunks and becomes readable once  *)
(* it has arrived in `rxbuf`; a read returns what is there, at most the    *)
(* number of bytes asked for (a short read is a transport timeout).        *)
(***************************************************************************)
EXTENDS Integers, Sequences, FiniteSets, TLC

VARIABLES
    verify_checksum,  \* ServoBus.verify_checksum
    discard_echo,     \* ServoBus.discard_echo
    has_reset,        \* the transport object has reset_input_buffer()
    hw_echo,          \* the bus hardware echoes what is written
    on_exit_power_off, \* ServoBus.on_exit_power_off
    _close_on_exit,   \* ServoBus._close_on_exit: the bus opened the connection
    closed,           \* serial_conn.close() has been called
    self_id,          \* Servo.id of the handle the callers share
    lockOwner,        \* ServoBus._serial_conn_lock: owning caller, 0 when free
    lockCount,        \* ServoBus._serial_conn_lock: nesting depth of the owner
    rxbuf,            \* transport input buffer (bytes that read() can return)
    inflight,         \* chunks of bytes on their way to the input buffer
    next_resp,        \* how the device answers the next request frame
    wire,             \* every write() so far: [by, bytes]
    pc,               \* per caller: position in the code
    stack,            \* per caller: the bus methods it is inside, outermost first
    op,               \* per caller: the call it makes
    req,              \* per caller: arguments of the current _send_packet
    rcv,              \* per caller: locals of the current _receive_packet
    result,           \* per caller: outcome of the call
    held,             \* per caller: `with self._serial_conn_lock` blocks it is inside
    trace             \* per caller: what its reads and writes met (history)

vars == <<verify_checksum, discard_echo, has_reset, hw_echo, on_exit_power_off,
          _close_on_exit, closed, self_id, lockOwner, lockCount,
          rxbuf, inflight, next_resp, wire, pc, stack, op, req, rcv, result,
          held, trace>>

cfgvars == <<verify_checksum, discard_echo, has_reset, hw_echo, on_exit_power_off,
             _close_on_exit, closed, self_id>>

----------------------------------------------------------------------------
(* Bounds of the model *)

NumCallers == 2

Callers == 1..NumCallers

(* Program constants *)

MIN_ID == 0
MAX_ID == 253
BROADCAST_ID == 254
MIN_ANGLE_DEGREES == 0
MAX_ANGLE_DEGREES == 240
SYNC == 85
_SERVO_MOVE_TIME_WRITE == 1
_SERVO_MOVE_TIME_WAIT_WRITE == 7
_SERVO_MOVE_START == 11
_SERVO_MOVE_STOP == 12
_SERVO_ID_WRITE == 13
_SERVO_ANGLE_OFFSET_ADJUST == 17
_SERVO_ANGLE_OFFSET_WRITE == 18
_SERVO_ANGLE_LIMIT_WRITE == 20
_SERVO_VIN_LIMIT_WRITE == 22
_SERVO_TEMP_MAX_LIMIT_WRITE == 24
_SERVO_TEMP_MAX_LIMIT_READ == 25
_SERVO_TEMP_READ == 26
_SERVO_POS_READ == 28
_SERVO_OR_MOTOR_MODE_WRITE == 29
_SERVO_OR_MOTOR_MODE_READ == 30
_SERVO_LOAD_OR_UNLOAD_WRITE == 31
_SERVO_LOAD_OR_UNLOAD_READ == 32
_SERVO_LED_CTRL_WRITE == 33
_SERVO_LED_CTRL_READ == 34
_SERVO_LED_ERROR_WRITE == 35
_SERVO_LED_ERROR_READ == 36
RetryBudget == 3
NoiseCeiling == 2048

_PACKET_HEADER == <<SYNC, SYNC>>

----------------------------------------------------------------------------
(* Byte sequences *)

(* sum(s), by halves so that a full-length frame needs little recursion *)
RECURSIVE Sum(_)
Sum(s) ==
    IF Len(s) = 0 THEN 0
    ELSE IF Len(s) = 1 THEN s[1]
    ELSE LET h == Len(s) \div 2
         IN  Sum(SubSeq(s, 1, h)) + Sum(SubSeq(s, h + 1, Len(s)))

Min(a, b) == IF a < b THEN a ELSE b

Max(a, b) == IF a > b THEN a ELSE b

Take(s, n) == SubSeq(s, 1, Min(Max(n, 0), Len(s)))

Drop(s, n) == SubSeq(s, Min(Max(n, 0), Len(s)) + 1, Len(s))

Fill(b, n) == [i \in 1..n |-> b]

ChecksumUnmasked(servo_id, length, command, parameters) ==
    -(servo_id + length + command + Sum(parameters)) - 1

ChecksumNoComplement(servo_id, length, command, parameters) ==
    (servo_id + length + command + Sum(parameters)) % 256

(* utils._calculate_checksum: ~(sum) & 0xFF *)
_calculate_checksum(servo_id, length, command, parameters) ==
    255 - ((servo_id + length + command + Sum(parameters)) % 256)

BuildPacketLengthCountsId(servo_id, command, parameters) ==
    LET length == 4 + Len(parameters)
    IN  _PACKET_HEADER \o <<servo_id, length, command>> \o parameters
          \o <<_calculate_checksum(servo_id, length, command, parameters)>>

(* The frame _send_packet builds: header, id, length, command, parameters, checksum *)
BuildPacket(servo_id, command, parameters) ==
    LET length == 3 + Len(parameters)
    IN  _PACKET_HEADER \o <<servo_id, length, command>> \o parameters
          \o <<_calculate_checksum(servo_id, length, command, parameters)>>

(* _send_packet's argument validation *)
ValidSendArgs(servo_id, command) ==
    /\ ~(servo_id < MIN_ID \/ servo_id > BROADCAST_ID)
    /\ ~(command < 0 \/ command > 255)

(* servo_packet.append(length): a bytearray takes values in range(0, 256) only *)
LengthFits(parameters) == 3 + Len(parameters) <= 255

----------------------------------------------------------------------------
(* Outcomes *)

NoPacket == [servo_id |-> -1, command |-> -1, parameters |-> <<>>]

NoResult ==
    [status |-> "none", type |-> "", msg |-> "", packet |-> NoPacket,
     received |-> -1, actual |-> -1, value |-> <<>>]

Returned(p) == [NoResult EXCEPT !.status = "ok", !.packet = p]

(* A public command returns the tuple v *)
ReturnedValue(v) == [NoResult EXCEPT !.status = "ok", !.value = v]

Raised(type, msg) == [NoResult EXCEPT !.status = "error", !.type = type, !.msg = msg]

ChecksumError(received, actual) ==
    [Raised("ServoBusError", "Checksum failed") EXCEPT
        !.received = received, !.actual = actual]

NoReq == [servo_id |-> -1, command |-> -1, parameters |-> <<>>]

NoRcv ==
    [header |-> <<>>, servo_id |-> -1, length |-> -1, command |-> -1,
     parameters |-> <<>>, checksum |-> -1]

NoTrace ==
    [resps |-> <<>>, writes |-> 0, short |-> {}, complete |-> FALSE,
     response |-> NoPacket, slept |-> <<>>, calls |-> <<>>]

(* A call of a method of serial_conn: n bytes handed over or asked for, got
   bytes returned *)
Called(method, n, got) == [method |-> method, n |-> n, got |-> got]

----------------------------------------------------------------------------
(* The bus lock: multiprocessing.RLock, owned by one caller, re-acquirable by it *)

CanAcquireNonReentrant(t) == lockOwner = 0

CanAcquireNoExclusion(t) == TRUE

CanAcquire(t) == lockOwner = 0 \/ lockOwner = t

LockAcquire(t) ==
    /\ CanAcquire(t)
    /\ lockOwner' = t
    /\ lockCount' = lockCount + 1
    /\ held' = [held EXCEPT ![t] = @ + 1]

LockReleaseKeepsOwner(t, n) ==
    /\ lockCount' = Max(lockCount - n, 0)
    /\ lockOwner' = lockOwner
    /\ held' = [held EXCEPT ![t] = @ - n]

LockReleaseInnermost(t, n) ==
    /\ lockCount' = Max(lockCount - 1, 0)
    /\ lockOwner' = IF lockCount - 1 <= 0 THEN 0 ELSE lockOwner
    /\ held' = [held EXCEPT ![t] = @ - 1]

(* Leaving n `with` blocks of caller t *)
LockRelease(t, n) ==
    /\ lockCount' = Max(lockCount - n, 0)
    /\ lockOwner' = IF lockCount - n <= 0 THEN 0 ELSE lockOwner
    /\ held' = [held EXCEPT ![t] = @ - n]

NeverInExit(t) == FALSE

(* The caller is inside the try block of __exit__ *)
InExit(t) == stack[t] # <<>> /\ Head(stack[t]) = "exit"

(* An exception nothing catches: it leaves every `with` block the caller is in
   and ends the call; out of the try block of __exit__ it passes through the
   finally clause first. *)
Raise(t, e) ==
    /\ result' = [result EXCEPT ![t] = e]
    /\ pc' = [pc EXCEPT ![t] = IF InExit(t) THEN "exit_finally" ELSE "done"]
    /\ stack' = [stack EXCEPT ![t] = IF InExit(t) THEN <<"exit">> ELSE <<>>]

----------------------------------------------------------------------------
(* The transport and the devices behind it *)

(* Commands a servo answers with a response frame (constants.py, the *_READ codes) *)
ReadCommands == {2, 8, 14, 19, 21, 23, 25, 26, 27, _SERVO_POS_READ, 30, 32, 34, 36}

Answers(servo_id, command) ==
    command \in ReadCommands /\ servo_id >= MIN_ID /\ servo_id <= MAX_ID

PosParams == <<16, 0>>

NoisePrefix == <<255, 255, SYNC, 170, 255>>

(* A frame whose second parameter byte equals the checksum of the frame cut
   after its first parameter byte *)
SplitFrame(servo_id, command) ==
    BuildPacket(servo_id, command,
                <<16, _calculate_checksum(servo_id, 5, command, <<16>>)>>)

BadSum(f) == [f EXCEPT ![Len(f)] = (@ + 1) % 256]

(* Parameter bytes a device may put in an otherwise well-formed response: none,
   one byte, three bytes, and the four- and five-byte layouts of a mode answer
   (flag, pad, speed low, speed high) *)
Payload(kind) ==
    CASE kind = "p_none"      -> <<>>
      [] kind = "p_00"        -> <<0>>
      [] kind = "p_01"        -> <<1>>
      [] kind = "p_02"        -> <<2>>
      [] kind = "p_25"        -> <<25>>
      [] kind = "p_06"        -> <<6>>
      [] kind = "p_three"     -> <<16, 0, 7>>
      [] kind = "m_servo"     -> <<0, 0, 0, 0>>
      [] kind = "m_servo_spd" -> <<0, 0, 244, 1>>
      [] kind = "m_motor"     -> <<1, 0, 244, 1>>
      [] kind = "m_motor_neg" -> <<1, 0, 212, 254>>
      [] kind = "m_two"       -> <<2, 0, 244, 1>>
      [] kind = "m_minus"     -> <<255, 0, 0, 0>>
      [] kind = "m_five"      -> <<1, 0, 244, 1, 0>>

PayloadResps ==
    {"p_none", "p_00", "p_01", "p_02", "p_25", "p_06", "p_three", "m_servo", "m_servo_spd",
     "m_motor", "m_motor_neg", "m_two", "m_minus", "m_five"}

(* What the device sends back for a request frame, as the chunks it arrives in *)
ResponseFor(kind, servo_id, command) ==
    LET good == BuildPacket(servo_id, command, PosParams)
    IN  CASE kind = "none"         -> <<>>
          [] kind = "valid"        -> <<good>>
          [] kind = "wrong_id"     -> <<BuildPacket((servo_id + 1) % 254, command, PosParams)>>
          [] kind = "wrong_cmd"    -> <<BuildPacket(servo_id, (command + 1) % 256, PosParams)>>
          [] kind = "bad_sum"      -> <<BadSum(good)>>
          [] kind = "noisy"        -> <<NoisePrefix \o good>>
          [] kind = "hdr_only"     -> <<Take(good, 2)>>
          [] kind = "short_fields" -> <<Take(good, 4)>>
          [] kind = "short_params" -> <<Take(good, 6)>>
          [] kind = "no_cksum"     -> <<Take(good, 7)>>
          [] kind = "one_param"    -> <<BuildPacket(servo_id, command, <<16>>)>>
          [] kind = "split"        -> <<Take(SplitFrame(servo_id, command), 6),
                                        Drop(SplitFrame(servo_id, command), 6)>>
          [] kind \in PayloadResps -> <<BuildPacket(servo_id, command, Payload(kind))>>

RichResps ==
    {"none", "valid", "wrong_id", "wrong_cmd", "bad_sum", "noisy", "hdr_only",
     "short_fields", "short_params", "no_cksum", "one_param", "split"}

(* A working servo: a valid frame, which may still arrive after the read gave up *)
WorkingResps == {"valid"}

(* What a device may answer to a public command: nothing, a valid position
   frame, a frame of another servo or command, a corrupted frame, or a
   well-formed frame with any of the payloads *)
CmdResps == {"none", "valid", "wrong_id", "wrong_cmd", "bad_sum"} \cup PayloadResps

(* serial_conn.read(n): at most n bytes of what has arrived *)
Read(n) == Take(rxbuf, n)

AfterRead(n) == Drop(rxbuf, n)

(* Bytes on their way reach the input buffer *)
Arrive ==
    /\ inflight # <<>>
    /\ rxbuf' = rxbuf \o Head(inflight)
    /\ inflight' = Tail(inflight)
    /\ UNCHANGED <<cfgvars, lockOwner, lockCount, next_resp, wire, pc, stack, op,
                   req, rcv, result, held, trace>>

----------------------------------------------------------------------------
(* Codec helpers used by the composite command *)

truncate_angle(angle_degrees) ==
    Min(Max(MIN_ANGLE_DEGREES, angle_degrees), MAX_ANGLE_DEGREES)

(* int(float(degrees * 1000 / 240)): truncation toward zero *)
_degrees_to_ticks(degrees) ==
    IF degrees >= 0 THEN (degrees * 1000) \div MAX_ANGLE_DEGREES
    ELSE -(((-degrees) * 1000) \div MAX_ANGLE_DEGREES)

(* struct '<h' on two bytes *)
UnpackShort(b) ==
    LET u == b[1] + 256 * b[2] IN IF u >= 32768 THEN u - 65536 ELSE u

(* struct '<HH' *)
Pack2UShorts(a, b) == <<a % 256, a \div 256, b % 256, b \div 256>>

(* round(n / d) for n >= 0, d > 0, ties to even as Python's round *)
RoundDiv(n, d) ==
    LET q == n \div d
        r == n % d
    IN  IF 2 * r > d \/ (2 * r = d /\ q % 2 = 1) THEN q + 1 ELSE q

(* move_speed_write / _move_time_write: the milliseconds sent for a move from
   `ticks` to angle_degrees at speed_dps (speed_dps # 0), after the clamp of
   time_s to [0, 30] *)
MoveTimeMs(angle_degrees, ticks, speed_dps) ==
    LET milli == 1000 * angle_degrees - MAX_ANGLE_DEGREES * ticks
        error == IF milli < 0 THEN -milli ELSE milli
    IN  IF speed_dps < 0 THEN 0
        ELSE Min(RoundDiv(error, speed_dps), 30000)

MoveTimeSaturating(angle_degrees, ticks, speed_dps) ==
    IF speed_dps = 0
    THEN [raise |-> [status |-> "ok"], time_ms |-> 30000]
    ELSE [raise |-> [status |-> "ok"],
          time_ms |-> MoveTimeMs(angle_degrees, ticks, speed_dps)]

(* move_speed_write: time_s = error / speed_dps, which raises for a zero
   speed_dps, and the milliseconds move_time_write makes of it *)
MoveTime(angle_degrees, ticks, speed_dps) ==
    IF speed_dps = 0
    THEN [raise |-> [status |-> "error", type |-> "ZeroDivisionError",
                     msg |-> "float division by zero"],
          time_ms |-> 0]
    ELSE [raise |-> [status |-> "ok"],
          time_ms |-> MoveTimeMs(angle_degrees, ticks, speed_dps)]

----------------------------------------------------------------------------
(* Calls *)

NoOp ==
    [kind |-> "none", servo_id |-> -1, command |-> -1, parameters |-> <<>>,
     angle_degrees |-> 0, speed_dps |-> 0, stream |-> <<>>, late |-> <<>>,
     name |-> "", servo_ids |-> <<>>, new_id |-> -1, mode |-> "",
     has_speed |-> FALSE, speed |-> 0, state |-> FALSE, units |-> "F",
     offset_degrees |-> 0, write |-> FALSE, stalled |-> FALSE,
     over_voltage |-> FALSE, over_temp |-> FALSE, min_value |-> <<0, 1>>,
     max_value |-> <<0, 1>>, temp |-> <<0, 1>>, time_s |-> <<0, 1>>,
     wait |-> FALSE, length |-> 0]

(* _send_packet(servo_id, command): move_start and an out-of-range address *)
SendOps ==
    {[NoOp EXCEPT !.kind = "send", !.servo_id = i, !.command = _SERVO_MOVE_START] :
        i \in {2, BROADCAST_ID, 255}}

(* _send_and_receive_packet(servo_id, command) *)
SrOps ==
    {[NoOp EXCEPT !.kind = "sr", !.servo_id = i, !.command = _SERVO_POS_READ] :
        i \in {1, 2}}

(* move_speed_write(servo_id, angle_degrees, speed_dps) *)
MswOps ==
    {[NoOp EXCEPT !.kind = "msw", !.servo_id = 1, !.command = _SERVO_POS_READ,
                  !.angle_degrees = 120, !.speed_dps = 60]}

AllOps == SendOps \cup SrOps \cup MswOps

(* The calls concurrent callers make: a broadcast move_start, a position read
   and the composite move_speed_write *)
BusOps ==
    {o \in SendOps : o.servo_id = BROADCAST_ID}
    \cup {o \in SrOps : o.servo_id = 2}
    \cup MswOps

ReqOf(o) == [servo_id |-> o.servo_id, command |-> o.command, parameters |-> o.parameters]

Front(s) == SubSeq(s, 1, Len(s) - 1)

Last(s) == s[Len(s)]

(* A caller starts a call *)
Begin(t, o) ==
    /\ pc[t] = "idle"
    /\ op' = [op EXCEPT ![t] = o]
    /\ req' = [req EXCEPT ![t] = ReqOf(o)]
    /\ stack' = [stack EXCEPT ![t] =
                    CASE o.kind = "send" -> <<"sp">>
                      [] o.kind = "sr"   -> <<"sr">>
                      [] o.kind = "msw"  -> <<"msw", "sr">>]
    /\ pc' = [pc EXCEPT ![t] = IF o.kind = "send" THEN "sp_enter" ELSE "sr_lock"]
    /\ UNCHANGED <<cfgvars, lockOwner, lockCount, rxbuf, inflight, next_resp, wire,
                   rcv, result, held, trace>>

----------------------------------------------------------------------------
(* ServoBus._send_packet *)

(* validation of servo_id and command, then the frame is built *)
SendPacketEnter(t) ==
    /\ pc[t] = "sp_enter"
    /\ IF ValidSendArgs(req[t].servo_id, req[t].command)
       THEN IF LengthFits(req[t].parameters)
            THEN /\ pc' = [pc EXCEPT ![t] = "sp_lock"]
                 /\ UNCHANGED <<result, stack, lockOwner, lockCount, held>>
            ELSE /\ Raise(t, Raised("ValueError", "byte must be in range(0, 256)"))
                 /\ LockRelease(t, held[t])
       ELSE /\ Raise(t, Raised("ValueError", "out of range"))
            /\ LockRelease(t, held[t])
    /\ UNCHANGED <<cfgvars, rxbuf, inflight, next_resp, wire, op, req, rcv, trace>>

(* with self._serial_conn_lock: *)
SendPacketLock(t) ==
    /\ pc[t] = "sp_lock"
    /\ LockAcquire(t)
    /\ pc' = [pc EXCEPT ![t] = "sp_flush"]
    /\ UNCHANGED <<cfgvars, rxbuf, inflight, next_resp, wire, stack, op, req, rcv,
                   result, trace>>

CaughtNever(exc) == FALSE

(* except AttributeError: pass *)
Caught(exc) == exc = "AttributeError"

(* serial_conn.reset_input_buffer(); on a transport without the method the
   attribute lookup raises AttributeError *)
SendPacketFlush(t) ==
    /\ pc[t] = "sp_flush"
    /\ IF has_reset
       THEN /\ rxbuf' = <<>>
            /\ trace' = [trace EXCEPT ![t].calls =
                            Append(@, Called("reset_input_buffer", 0, 0))]
            /\ pc' = [pc EXCEPT ![t] = "sp_write"]
            /\ UNCHANGED <<result, stack, lockOwner, lockCount, held>>
       ELSE IF Caught("AttributeError")
       THEN /\ pc' = [pc EXCEPT ![t] = "sp_write"]
            /\ UNCHANGED <<rxbuf, trace, result, stack, lockOwner, lockCount, held>>
       ELSE /\ Raise(t, Raised("AttributeError", "no attribute reset_input_buffer"))
            /\ LockRelease(t, held[t])
            /\ UNCHANGED <<rxbuf, trace>>
    /\ UNCHANGED <<cfgvars, inflight, next_resp, wire, op, req, rcv>>

(* serial_conn.write(servo_packet); the device answers as next_resp says, and
   the way it answers the request after this one is drawn from R *)
SendPacketWrite(t, R) ==
    /\ pc[t] = "sp_write"
    /\ LET packet == BuildPacket(req[t].servo_id, req[t].command, req[t].parameters)
           answered == Answers(req[t].servo_id, req[t].command)
       IN  /\ wire' = Append(wire, [by |-> t, bytes |-> packet])
           /\ inflight' = inflight \o (IF hw_echo THEN <<packet>> ELSE <<>>)
                 \o (IF answered
                     THEN ResponseFor(next_resp, req[t].servo_id, req[t].command)
                     ELSE <<>>)
           /\ IF answered THEN next_resp' \in R ELSE next_resp' = next_resp
           /\ trace' = [trace EXCEPT ![t].resps =
                           IF answered THEN Append(@, next_resp) ELSE @,
                                     ![t].writes = @ + 1,
                                     ![t].calls =
                           Append(@, Called("write", Len(packet), Len(packet)))]
    /\ pc' = [pc EXCEPT ![t] = IF discard_echo THEN "sp_echo" ELSE "sp_unlock"]
    /\ UNCHANGED <<cfgvars, lockOwner, lockCount, rxbuf, stack, op, req, rcv,
                   result, held>>

EchoReadSizeHeader(servo_packet) == Len(_PACKET_HEADER)

(* len(servo_packet) *)
EchoReadSize(servo_packet) == Len(servo_packet)

(* serial_conn.read(len(servo_packet)), the bytes are dropped *)
SendPacketEcho(t) ==
    /\ pc[t] = "sp_echo"
    /\ LET n == EchoReadSize(BuildPacket(req[t].servo_id, req[t].command,
                                         req[t].parameters))
       IN  /\ rxbuf' = AfterRead(n)
           /\ trace' = [trace EXCEPT ![t].short =
                           IF Len(Read(n)) < n THEN @ \cup {"echo"} ELSE @,
                                     ![t].calls =
                           Append(@, Called("read", n, Len(Read(n))))]
    /\ pc' = [pc EXCEPT ![t] = "sp_unlock"]
    /\ UNCHANGED <<cfgvars, lockOwner, lockCount, inflight, next_resp, wire, stack,
                   op, req, rcv, result, held>>

(* end of the with block; _send_packet returns to its caller *)
SendPacketUnlock(t) ==
    /\ pc[t] = "sp_unlock"
    /\ LockRelease(t, 1)
    /\ LET rest == Front(stack[t])
       IN  IF rest # <<>> /\ Last(rest) = "sr"
           THEN /\ stack' = [stack EXCEPT ![t] = rest \o <<"rp">>]
                /\ pc' = [pc EXCEPT ![t] = "rp_lock"]
                /\ UNCHANGED result
           ELSE IF rest # <<>> /\ Last(rest) = "cmd"
           THEN /\ stack' = [stack EXCEPT ![t] = rest]
                /\ pc' = [pc EXCEPT ![t] = "cmd_next"]
                /\ UNCHANGED result
           ELSE /\ stack' = [stack EXCEPT ![t] = <<>>]
                /\ pc' = [pc EXCEPT ![t] = "done"]
                /\ result' = [result EXCEPT ![t] = Returned(NoPacket)]
    /\ UNCHANGED <<cfgvars, rxbuf, inflight, next_resp, wire, op, req, rcv, trace>>

----------------------------------------------------------------------------
(* ServoBus._receive_packet *)

(* with self._serial_conn_lock: *)
ReceivePacketLock(t) ==
    /\ pc[t] = "rp_lock"
    /\ LockAcquire(t)
    /\ rcv' = [rcv EXCEPT ![t] = NoRcv]
    /\ pc' = [pc EXCEPT ![t] = "rp_header"]
    /\ UNCHANGED <<cfgvars, rxbuf, inflight, next_resp, wire, stack, op, req,
                   result, trace>>

(* header != constants._PACKET_HEADER *)
HeaderAccepted(header) == header = _PACKET_HEADER

(* header = serial_conn.read(2), compared with the packet header *)
ReceivePacketHeader(t) ==
    /\ pc[t] = "rp_header"
    /\ rxbuf' = AfterRead(2)
    /\ rcv' = [rcv EXCEPT ![t].header = Read(2)]
    /\ trace' = [trace EXCEPT ![t].short =
                    IF Len(Read(2)) < 2 THEN @ \cup {"header"} ELSE @,
                              ![t].calls = Append(@, Called("read", 2, Len(Read(2))))]
    /\ IF HeaderAccepted(Read(2))
       THEN /\ pc' = [pc EXCEPT ![t] = "rp_fields"]
            /\ UNCHANGED <<result, stack, lockOwner, lockCount, held>>
       ELSE /\ Raise(t, Raised("ServoBusError", "Expected header"))
            /\ LockRelease(t, held[t])
    /\ UNCHANGED <<cfgvars, inflight, next_resp, wire, op, req>>

(* servo_id, length, command = serial_conn.read(3): unpacking fewer than three
   bytes is a ValueError *)
ReceivePacketFields(t) ==
    /\ pc[t] = "rp_fields"
    /\ rxbuf' = AfterRead(3)
    /\ trace' = [trace EXCEPT ![t].short =
                    IF Len(Read(3)) < 3 THEN @ \cup {"fields"} ELSE @,
                              ![t].calls = Append(@, Called("read", 3, Len(Read(3))))]
    /\ IF Len(Read(3)) = 3
       THEN /\ rcv' = [rcv EXCEPT ![t].servo_id = Read(3)[1],
                                  ![t].length = Read(3)[2],
                                  ![t].command = Read(3)[3]]
            /\ pc' = [pc EXCEPT ![t] = "rp_params"]
            /\ UNCHANGED <<result, stack, lockOwner, lockCount, held>>
       ELSE /\ Raise(t, Raised("ValueError", "not enough values to unpack"))
            /\ LockRelease(t, held[t])
            /\ UNCHANGED rcv
    /\ UNCHANGED <<cfgvars, inflight, next_resp, wire, op, req>>

(* parameters = serial_conn.read(length - 3): whatever comes is kept *)
ReceivePacketParams(t) ==
    /\ pc[t] = "rp_params"
    /\ LET param_count == rcv[t].length - 3
       IN  /\ rxbuf' = AfterRead(param_count)
           /\ rcv' = [rcv EXCEPT ![t].parameters = Read(param_count)]
           /\ trace' = [trace EXCEPT ![t].short =
                           IF Len(Read(param_count)) < param_count
                           THEN @ \cup {"params"} ELSE @,
                                     ![t].calls =
                           Append(@, Called("read", param_count,
                                            Len(Read(param_count))))]
    /\ pc' = [pc EXCEPT ![t] = "rp_cksum"]
    /\ UNCHANGED <<cfgvars, lockOwner, lockCount, inflight, next_resp, wire, stack,
                   op, req, result, held>>

(* checksum = serial_conn.read(1)[0]: indexing an empty read is an IndexError *)
ReceivePacketChecksum(t) ==
    /\ pc[t] = "rp_cksum"
    /\ rxbuf' = AfterRead(1)
    /\ IF Len(Read(1)) = 1
       THEN /\ rcv' = [rcv EXCEPT ![t].checksum = Read(1)[1]]
            /\ trace' = [trace EXCEPT ![t].complete = TRUE,
                                      ![t].calls = Append(@, Called("read", 1, 1))]
            /\ pc' = [pc EXCEPT ![t] = "rp_unlock"]
            /\ UNCHANGED <<result, stack, lockOwner, lockCount, held>>
       ELSE /\ Raise(t, Raised("IndexError", "index out of range"))
            /\ LockRelease(t, held[t])
            /\ trace' = [trace EXCEPT ![t].short = @ \cup {"cksum"},
                                      ![t].calls = Append(@, Called("read", 1, 0))]
            /\ UNCHANGED rcv
    /\ UNCHANGED <<cfgvars, inflight, next_resp, wire, op, req>>

ChecksumAcceptedAlways(r) == TRUE

(* if self.verify_checksum: ... if checksum != actual_checksum: raise *)
ChecksumAccepted(r) ==
    \/ ~verify_checksum
    \/ r.checksum = _calculate_checksum(r.servo_id, r.length, r.command, r.parameters)

(* end of the with block, then the checksum is verified and the packet returned *)
ReceivePacketUnlock(t) ==
    /\ pc[t] = "rp_unlock"
    /\ LET r == rcv[t]
           packet == [servo_id |-> r.servo_id, command |-> r.command,
                      parameters |-> r.parameters]
           rest == Front(stack[t])
       IN  IF ~ChecksumAccepted(r)
           THEN /\ Raise(t, ChecksumError(r.checksum,
                            _calculate_checksum(r.servo_id, r.length, r.command,
                                                r.parameters)))
                /\ LockRelease(t, held[t])
                /\ UNCHANGED trace
           ELSE /\ LockRelease(t, 1)
                /\ trace' = [trace EXCEPT ![t].response = packet]
                /\ IF rest = <<>>
                   THEN /\ pc' = [pc EXCEPT ![t] = "done"]
                        /\ result' = [result EXCEPT ![t] = Returned(packet)]
                   ELSE /\ pc' = [pc EXCEPT ![t] = "sr_unlock"]
                        /\ UNCHANGED result
                /\ stack' = [stack EXCEPT ![t] = rest]
    /\ UNCHANGED <<cfgvars, rxbuf, inflight, next_resp, wire, op, req, rcv>>

----------------------------------------------------------------------------
(* ServoBus._send_and_receive_packet *)

(* with self._serial_conn_lock: self._send_packet(...) *)
SendAndReceiveLock(t) ==
    /\ pc[t] = "sr_lock"
    /\ LockAcquire(t)
    /\ stack' = [stack EXCEPT ![t] = @ \o <<"sp">>]
    /\ pc' = [pc EXCEPT ![t] = "sp_enter"]
    /\ UNCHANGED <<cfgvars, rxbuf, inflight, next_resp, wire, op, req, rcv, result,
                   trace>>

ResponseMatchesIdOnly(response, servo_id, command) == response.servo_id = servo_id

(* response.servo_id != servo_id, response.command != command *)
ResponseMatches(response, servo_id, command) ==
    /\ response.servo_id = servo_id
    /\ response.command = command

MismatchError(response, servo_id, command) ==
    IF response.servo_id # servo_id
    THEN Raised("ServoBusError", "servo ID does not match")
    ELSE Raised("ServoBusError", "command does not match")

(* end of the with block, then the response is matched against the request *)
SendAndReceiveUnlock(t) ==
    /\ pc[t] = "sr_unlock"
    /\ LockRelease(t, 1)
    /\ LET response == trace[t].response
           rest == Front(stack[t])
       IN  IF ~ResponseMatches(response, req[t].servo_id, req[t].command)
           THEN Raise(t, MismatchError(response, req[t].servo_id, req[t].command))
           ELSE /\ stack' = [stack EXCEPT ![t] = rest]
                /\ IF rest = <<>>
                   THEN /\ pc' = [pc EXCEPT ![t] = "done"]
                        /\ result' = [result EXCEPT ![t] = Returned(response)]
                   ELSE /\ pc' = [pc EXCEPT ![t] =
                                    CASE Last(rest) = "msw" -> "msw_move"
                                      [] Last(rest) = "cmd" -> "cmd_decode"
                                      [] Last(rest) = "vel" -> "vel_next"]
                        /\ UNCHANGED result
    /\ UNCHANGED <<cfgvars, rxbuf, inflight, next_resp, wire, op, req, rcv, trace>>

----------------------------------------------------------------------------
(* ServoBus.move_speed_write: pos_read has returned; the move is computed and
   handed to move_time_write *)

MoveSpeedWriteMove(t) ==
    /\ pc[t] = "msw_move"
    /\ LET parameters == trace[t].response.parameters
           o == op[t]
       IN  IF Len(parameters) # 2
           THEN /\ Raise(t, Raised("struct.error", "unpack requires a buffer of 2 bytes"))
                /\ UNCHANGED req
           ELSE LET time == MoveTime(o.angle_degrees, UnpackShort(parameters),
                                     o.speed_dps)
           IN IF time.raise.status = "error"
           THEN /\ Raise(t, Raised(time.raise.type, time.raise.msg))
                /\ UNCHANGED req
           ELSE /\ req' = [req EXCEPT ![t] =
                     [servo_id |-> o.servo_id, command |-> _SERVO_MOVE_TIME_WRITE,
                      parameters |-> Pack2UShorts(
                          _degrees_to_ticks(truncate_angle(o.angle_degrees)),
                          time.time_ms)]]
                /\ stack' = [stack EXCEPT ![t] = <<"msw", "sp">>]
                /\ pc' = [pc EXCEPT ![t] = "sp_enter"]
                /\ UNCHANGED result
    /\ UNCHANGED <<cfgvars, lockOwner, lockCount, rxbuf, inflight, next_resp, wire,
                   op, rcv, held, trace>>

----------------------------------------------------------------------------
(* Public commands: what each checks, what it sends, what it makes of the
   response.  A call is described by the exception its own checks raise, the
   frames it hands to _send_packet in order, and whether it reads a response. *)

(* str.lower() and str.upper() on the strings the callers pass *)
Lower(s) ==
    CASE s = "MOTOR" -> "motor"
      [] s = "Motor" -> "motor"
      [] s = "Servo" -> "servo"
      [] OTHER       -> s

Upper(s) ==
    CASE s = "c" -> "C"
      [] s = "f" -> "F"
      [] s = "k" -> "K"
      [] s = "c " -> "C "
      [] s = "cf" -> "CF"
      [] s = "Celsius" -> "CELSIUS"
      [] s = "fahrenheit" -> "FAHRENHEIT"
      [] OTHER   -> s

Frame(servo_id, command, parameters) ==
    [servo_id |-> servo_id, command |-> command, parameters |-> parameters]

NoCall == [raise |-> NoResult, send |-> <<>>, reads |-> FALSE, sleep |-> <<>>]

Fails(e) == [NoCall EXCEPT !.raise = e]

SendsAgain(frames) == [NoCall EXCEPT !.send = frames \o frames]

Sends(frames) == [NoCall EXCEPT !.send = frames]

Asks(frame) == [NoCall EXCEPT !.send = <<frame>>, !.reads = TRUE]

(* struct '<b' *)
PackChar(v) == <<v % 256>>

(* struct '<bxh': signed char, pad byte, signed short, little endian *)
PackCharPadShort(flag, v) == <<flag % 256, 0, v % 256, (v % 65536) \div 256>>

UnpackChar(b) == IF b >= 128 THEN b - 256 ELSE b

UnpackError == Raised("struct.error", "unpack requires a buffer")

IndexError == Raised("IndexError", "index out of range")

(* Values that are not whole numbers are kept as <<numerator, denominator>> *)
_ticks_to_degrees(ticks) == <<ticks * MAX_ANGLE_DEGREES, 1000>>

_celsius_to_fahrenheit(temp) == <<temp * 9 + 32 * 5, 5>>

ValidateTempUnitsExact(units) == units \in {"C", "F"}

(* utils._validate_temp_units: units.upper() in {'C', 'F'}, else ValueError *)
_validate_temp_units(units) == Upper(units) \in {"C", "F"}

(* utils._validate_temp_units called on its own: return units.upper() *)
_validate_temp_units_return(units) ==
    IF ~_validate_temp_units(units)
    THEN Raised("ValueError", "Units must be either C or F")
    ELSE ReturnedValue(<<Upper(units)>>)

move_start(servo_id) == Sends(<<Frame(servo_id, _SERVO_MOVE_START, <<>>)>>)

move_stop(servo_id) == Sends(<<Frame(servo_id, _SERVO_MOVE_STOP, <<>>)>>)

IdWriteUnchecked(old_id, new_id) ==
    IF new_id # old_id
    THEN Sends(<<Frame(old_id, _SERVO_ID_WRITE, <<new_id>>)>>)
    ELSE NoCall

id_write(old_id, new_id) ==
    IF old_id < MIN_ID \/ old_id > MAX_ID
    THEN Fails(Raised("ValueError", "old_id must be in range"))
    ELSE IF new_id < MIN_ID \/ new_id > MAX_ID
    THEN Fails(Raised("ValueError", "new_id must be in range"))
    ELSE IF new_id # old_id
    THEN Sends(<<Frame(old_id, _SERVO_ID_WRITE, <<new_id>>)>>)
    ELSE NoCall

(* round(offset_degrees * 125 / 30) *)
OffsetUnits(offset_degrees) ==
    IF offset_degrees >= 0 THEN RoundDiv(offset_degrees * 125, 30)
    ELSE -RoundDiv((-offset_degrees) * 125, 30)

AngleOffsetAlwaysWritten(servo_id, offset_degrees, write) ==
    IF offset_degrees < -30 \/ offset_degrees > 30
    THEN Fails(Raised("ValueError", "offset_degrees must be in range"))
    ELSE Sends(<<Frame(servo_id, _SERVO_ANGLE_OFFSET_ADJUST,
                       PackChar(OffsetUnits(offset_degrees))),
                 Frame(servo_id, _SERVO_ANGLE_OFFSET_WRITE, <<>>)>>)

angle_offset_adjust(servo_id, offset_degrees, write) ==
    IF offset_degrees < -30 \/ offset_degrees > 30
    THEN Fails(Raised("ValueError", "offset_degrees must be in range"))
    ELSE Sends(<<Frame(servo_id, _SERVO_ANGLE_OFFSET_ADJUST,
                       PackChar(OffsetUnits(offset_degrees)))>>
               \o (IF write
                   THEN <<Frame(servo_id, _SERVO_ANGLE_OFFSET_WRITE, <<>>)>>
                   ELSE <<>>))

ClampSpeedOff(speed) == speed

(* min(max(-1000, speed), 1000) *)
ClampSpeed(speed) == Min(Max(-1000, speed), 1000)

ModeKnownExact(mode) == mode \in {"motor", "servo"}

(* mode.lower() not in {'motor', 'servo'} *)
ModeKnown(mode) == Lower(mode) \in {"motor", "servo"}

mode_write(servo_id, mode, has_speed, speed) ==
    IF ~ModeKnown(mode)
    THEN Fails(Raised("ValueError", "mode must be either motor or servo"))
    ELSE IF Lower(mode) = "motor" /\ ~has_speed
    THEN Fails(Raised("ValueError", "speed must be specified"))
    ELSE Sends(<<Frame(servo_id, _SERVO_OR_MOTOR_MODE_WRITE,
                       PackCharPadShort(
                           IF Lower(mode) = "motor" THEN 1 ELSE 0,
                           IF Lower(mode) = "motor" THEN ClampSpeed(speed) ELSE 0))>>)

set_powered(servo_id, powered) ==
    Sends(<<Frame(servo_id, _SERVO_LOAD_OR_UNLOAD_WRITE,
                  IF powered THEN <<1>> ELSE <<0>>)>>)

LedCtrlByteDirect(state) == IF state THEN <<1>> ELSE <<0>>

(* b'\x00' if state else b'\x01' *)
LedCtrlByte(state) == IF state THEN <<0>> ELSE <<1>>

led_ctrl_write(servo_id, state) ==
    Sends(<<Frame(servo_id, _SERVO_LED_CTRL_WRITE, LedCtrlByte(state))>>)

pos_read(servo_id) == Asks(Frame(servo_id, _SERVO_POS_READ, <<>>))

pos_read_return(parameters) ==
    IF Len(parameters) # 2 THEN UnpackError
    ELSE ReturnedValue(_ticks_to_degrees(UnpackShort(parameters)))

temp_read(servo_id, units) ==
    IF ~_validate_temp_units(units)
    THEN Fails(Raised("ValueError", "Units must be either C or F"))
    ELSE Asks(Frame(servo_id, _SERVO_TEMP_READ, <<>>))

temp_read_return(units, parameters) ==
    IF parameters = <<>> THEN IndexError
    ELSE ReturnedValue(IF Upper(units) = "F"
                       THEN _celsius_to_fahrenheit(parameters[1])
                       ELSE <<parameters[1], 1>>)

mode_read(servo_id) == Asks(Frame(servo_id, _SERVO_OR_MOTOR_MODE_READ, <<>>))

ModeOfFlagLenient(mode) == IF mode = 0 THEN "servo" ELSE "motor"

(* mode == 0, mode == 1, anything else *)
ModeOfFlag(mode) ==
    CASE mode = 0 -> "servo"
      [] mode = 1 -> "motor"
      [] OTHER    -> "unknown"

mode_read_return(parameters) ==
    IF Len(parameters) # 4 THEN UnpackError
    ELSE LET mode == UnpackChar(parameters[1])
             speed == UnpackShort(<<parameters[3], parameters[4]>>)
         IN  CASE ModeOfFlag(mode) = "servo" -> ReturnedValue(<<"servo", "None">>)
               [] ModeOfFlag(mode) = "motor" -> ReturnedValue(<<"motor", speed>>)
               [] OTHER -> Raised("ValueError", "Received unknown mode")

is_powered(servo_id) ==
    IF servo_id < MIN_ID \/ servo_id > MAX_ID
    THEN Fails(Raised("ValueError", "servo_id must be in range"))
    ELSE Asks(Frame(servo_id, _SERVO_LOAD_OR_UNLOAD_READ, <<>>))

is_powered_return(parameters) ==
    IF parameters = <<>> THEN IndexError
    ELSE ReturnedValue(<<parameters[1] # 0>>)

led_ctrl_read(servo_id) == Asks(Frame(servo_id, _SERVO_LED_CTRL_READ, <<>>))

(* response.parameters == b'\x00' *)
led_ctrl_read_return(parameters) == ReturnedValue(<<parameters = <<0>>>>)

(* Arguments that are not whole numbers are <<numerator, denominator>> with a
   positive denominator *)

(* utils.truncate_angle on such an argument *)
truncate_angle_q(a) ==
    <<Min(Max(MIN_ANGLE_DEGREES * a[2], a[1]), MAX_ANGLE_DEGREES * a[2]), a[2]>>

DegreesToTicksNearest(a) == RoundDiv(a[1] * 1000, a[2] * MAX_ANGLE_DEGREES)

(* utils._degrees_to_ticks on such an argument: int() truncates toward zero *)
_degrees_to_ticks_q(a) ==
    IF a[1] >= 0 THEN (a[1] * 1000) \div (a[2] * MAX_ANGLE_DEGREES)
    ELSE -(((-a[1]) * 1000) \div (a[2] * MAX_ANGLE_DEGREES))

(* int(round(n / d)) for any sign of n, d > 0 *)
RoundQ(n, d) == IF n >= 0 THEN RoundDiv(n, d) ELSE -RoundDiv(-n, d)

AngleLimitsRejectedStrict(min_angle, max_angle) == min_angle > max_angle

(* if min_angle >= max_angle: raise ValueError *)
AngleLimitsRejected(min_angle, max_angle) == min_angle >= max_angle

angle_limit_write(servo_id, min_angle_degrees, max_angle_degrees) ==
    LET min_angle == _degrees_to_ticks_q(truncate_angle_q(min_angle_degrees))
        max_angle == _degrees_to_ticks_q(truncate_angle_q(max_angle_degrees))
    IN  IF AngleLimitsRejected(min_angle, max_angle)
        THEN Fails(Raised("ValueError",
                          "min_angle_degrees must be less than max_angle_degrees"))
        ELSE Sends(<<Frame(servo_id, _SERVO_ANGLE_LIMIT_WRITE,
                           Pack2UShorts(min_angle, max_angle))>>)

(* scrub_voltage: int(round(v * 1000)) clamped to [4500, 12000] *)
scrub_voltage(v) == Min(Max(4500, RoundQ(v[1] * 1000, v[2])), 12000)

VinLimitsRejectedOnEqual(min_voltage_mv, max_voltage_mv) ==
    min_voltage_mv >= max_voltage_mv

(* if min_voltage_mv > max_voltage_mv: raise ValueError *)
VinLimitsRejected(min_voltage_mv, max_voltage_mv) == min_voltage_mv > max_voltage_mv

vin_limit_write(servo_id, min_voltage, max_voltage) ==
    LET min_voltage_mv == scrub_voltage(min_voltage)
        max_voltage_mv == scrub_voltage(max_voltage)
    IN  IF VinLimitsRejected(min_voltage_mv, max_voltage_mv)
        THEN Fails(Raised("ValueError", "min_voltage must be less than max_voltage"))
        ELSE Sends(<<Frame(servo_id, _SERVO_VIN_LIMIT_WRITE,
                           Pack2UShorts(min_voltage_mv, max_voltage_mv))>>)

FahrenheitUnconverted(temp) == temp

(* utils._fahrenheit_to_celsius: (temp - 32) * 5 / 9 *)
_fahrenheit_to_celsius(temp) == <<(temp[1] - 32 * temp[2]) * 5, 9 * temp[2]>>

temp_max_limit_write(servo_id, temp, units) ==
    IF ~_validate_temp_units(units)
    THEN Fails(Raised("ValueError", "Units must be either C or F"))
    ELSE LET celsius == IF Upper(units) = "F" THEN _fahrenheit_to_celsius(temp)
                        ELSE temp
             rounded == RoundQ(celsius[1], celsius[2])
         IN  Sends(<<Frame(servo_id, _SERVO_TEMP_MAX_LIMIT_WRITE,
                           <<Min(Max(50, rounded), 100)>>)>>)

temp_max_limit_read(servo_id, units) ==
    IF ~_validate_temp_units(units)
    THEN Fails(Raised("ValueError", "Units must be either C or F"))
    ELSE Asks(Frame(servo_id, _SERVO_TEMP_MAX_LIMIT_READ, <<>>))

temp_max_limit_read_return(units, parameters) ==
    IF parameters = <<>> THEN IndexError
    ELSE ReturnedValue(IF Upper(units) = "F"
                       THEN _celsius_to_fahrenheit(parameters[1])
                       ELSE <<parameters[1], 1>>)

ClampTimeOff(time_s) == time_s

(* min(max(0, time_s), 30) *)
ClampTime(time_s) == <<Min(Max(0, time_s[1]), 30 * time_s[2]), time_s[2]>>

(* _move_time_write: after the frame, time.sleep(time_s) when wait is set *)
_move_time_write(servo_id, angle_degrees, time_s, command, wait) ==
    IF command \notin {_SERVO_MOVE_TIME_WRITE, _SERVO_MOVE_TIME_WAIT_WRITE}
    THEN Fails(Raised("ValueError", "Command must be either 1 or 7"))
    ELSE LET angle == _degrees_to_ticks_q(truncate_angle_q(angle_degrees))
             clamped == ClampTime(time_s)
             time_ms == RoundQ(clamped[1] * 1000, clamped[2])
         IN  [Sends(<<Frame(servo_id, command, Pack2UShorts(angle, time_ms))>>)
                 EXCEPT !.sleep = IF wait THEN clamped ELSE <<>>]

move_time_write(servo_id, angle_degrees, time_s, wait) ==
    _move_time_write(servo_id, angle_degrees, time_s, _SERVO_MOVE_TIME_WRITE, wait)

move_time_wait_write(servo_id, angle_degrees, time_s) ==
    _move_time_write(servo_id, angle_degrees, time_s, _SERVO_MOVE_TIME_WAIT_WRITE,
                     FALSE)

LedErrorByteSwapped(stalled, over_voltage, over_temp) ==
    (IF over_temp THEN 4 ELSE 0) + (IF over_voltage THEN 2 ELSE 0)
        + (IF stalled THEN 1 ELSE 0)

(* (stalled << 2) | (over_voltage << 1) | over_temp *)
LedErrorByte(stalled, over_voltage, over_temp) ==
    (IF stalled THEN 4 ELSE 0) + (IF over_voltage THEN 2 ELSE 0)
        + (IF over_temp THEN 1 ELSE 0)

led_error_write(servo_id, stalled, over_voltage, over_temp) ==
    Sends(<<Frame(servo_id, _SERVO_LED_ERROR_WRITE,
                  <<LedErrorByte(stalled, over_voltage, over_temp)>>)>>)

led_error_read(servo_id) == Asks(Frame(servo_id, _SERVO_LED_ERROR_READ, <<>>))

(* params & mask, for a mask of one bit *)
BitSet(params, mask) == (params \div mask) % 2 = 1

led_error_read_return(parameters) ==
    IF parameters = <<>> THEN IndexError
    ELSE ReturnedValue(<<BitSet(parameters[1], 4), BitSet(parameters[1], 2),
                         BitSet(parameters[1], 1)>>)

(* The call a caller makes, by the command's name *)
Marshal(o) ==
    CASE o.name = "move_start"    -> move_start(o.servo_id)
      [] o.name = "move_stop"     -> move_stop(o.servo_id)
      [] o.name = "id_write"      -> id_write(o.servo_id, o.new_id)
      [] o.name = "angle_offset_adjust" ->
             angle_offset_adjust(o.servo_id, o.offset_degrees, o.write)
      [] o.name = "mode_write"    -> mode_write(o.servo_id, o.mode, o.has_speed, o.speed)
      [] o.name = "set_powered"   -> set_powered(o.servo_id, o.state)
      [] o.name = "led_ctrl_write" -> led_ctrl_write(o.servo_id, o.state)
      [] o.name = "pos_read"      -> pos_read(o.servo_id)
      [] o.name = "temp_read"     -> temp_read(o.servo_id, o.units)
      [] o.name = "mode_read"     -> mode_read(o.servo_id)
      [] o.name = "is_powered"    -> is_powered(o.servo_id)
      [] o.name = "led_ctrl_read" -> led_ctrl_read(o.servo_id)
      [] o.name = "led_error_write" ->
             led_error_write(o.servo_id, o.stalled, o.over_voltage, o.over_temp)
      [] o.name = "led_error_read" -> led_error_read(o.servo_id)
      [] o.name = "vin_limit_write" ->
             vin_limit_write(o.servo_id, o.min_value, o.max_value)
      [] o.name = "temp_max_limit_write" ->
             temp_max_limit_write(o.servo_id, o.temp, o.units)
      [] o.name = "temp_max_limit_read" -> temp_max_limit_read(o.servo_id, o.units)
      [] o.name = "move_time_write" ->
             move_time_write(o.servo_id, o.min_value, o.time_s, o.wait)
      [] o.name = "move_time_wait_write" ->
             move_time_wait_write(o.servo_id, o.min_value, o.time_s)
      [] o.name = "angle_limit_write" ->
             angle_limit_write(o.servo_id, o.min_value, o.max_value)

(* What the command returns or raises once its response is in *)
Unmarshal(o, parameters) ==
    CASE o.name = "pos_read"      -> pos_read_return(parameters)
      [] o.name = "temp_read"     -> temp_read_return(o.units, parameters)
      [] o.name = "mode_read"     -> mode_read_return(parameters)
      [] o.name = "is_powered"    -> is_powered_return(parameters)
      [] o.name = "led_ctrl_read" -> led_ctrl_read_return(parameters)
      [] o.name = "led_error_read" -> led_error_read_return(parameters)
      [] o.name = "temp_max_limit_read" ->
             temp_max_limit_read_return(o.units, parameters)

Cmd(name, servo_id) == [NoOp EXCEPT !.kind = "cmd", !.name = name, !.servo_id = servo_id]

WriteCmdOps ==
    {Cmd("move_start", i) : i \in {2, BROADCAST_ID, 255}}
    \cup {Cmd("move_stop", i) : i \in {1, BROADCAST_ID}}
    \cup {[Cmd("set_powered", i) EXCEPT !.state = b] :
             i \in {1, BROADCAST_ID}, b \in BOOLEAN}
    \cup {[Cmd("led_ctrl_write", i) EXCEPT !.state = b] :
             i \in {1, BROADCAST_ID}, b \in BOOLEAN}
    \cup {[Cmd("id_write", i) EXCEPT !.new_id = n] :
             i \in {-1, 0, 1, MAX_ID, BROADCAST_ID},
             n \in {-1, 0, 1, 5, MAX_ID, BROADCAST_ID, 300}}
    \cup {[Cmd("mode_write", i) EXCEPT !.mode = m, !.has_speed = h, !.speed = v] :
             i \in {1}, m \in {"servo", "motor", "MOTOR", "Servo", "wheel", ""},
             h \in BOOLEAN, v \in {-2000, -1000, -300, 0, 500, 1000, 2000}}
    \cup {[Cmd("angle_offset_adjust", i) EXCEPT !.offset_degrees = d, !.write = w] :
             i \in {1, 255}, d \in {-31, -30, 3, 7, 30, 31}, w \in BOOLEAN}

ReadCmdOps ==
    {Cmd("pos_read", i) : i \in {1, 255}}
    \cup {[Cmd("temp_read", i) EXCEPT !.units = u] :
             i \in {1, 255}, u \in {"C", "F", "f", "K"}}
    \cup {Cmd("mode_read", i) : i \in {1}}
    \cup {Cmd("is_powered", i) : i \in {-1, 1, BROADCAST_ID}}
    \cup {Cmd("led_ctrl_read", i) : i \in {1}}

(* led_error_write with every combination of flags, and led_error_read *)
LedErrorOps ==
    {[Cmd("led_error_write", 1) EXCEPT !.stalled = s, !.over_voltage = v,
                                       !.over_temp = c] :
        s \in BOOLEAN, v \in BOOLEAN, c \in BOOLEAN}
    \cup {Cmd("led_error_read", 1)}

(* Angles in degrees: below, at and above the range, sixteenths and eighths *)
AngleArgs ==
    {<<-5, 1>>, <<0, 1>>, <<1, 16>>, <<1, 8>>, <<60, 1>>, <<120, 1>>, <<240, 1>>,
     <<250, 1>>, <<300, 1>>}

AngleLimitOps ==
    {[Cmd("angle_limit_write", 1) EXCEPT !.min_value = a, !.max_value = b] :
        a \in AngleArgs, b \in AngleArgs}

(* Voltages in volts: below, inside and above [4.5, 12] *)
VoltArgs ==
    {<<-1, 1>>, <<0, 1>>, <<45, 10>>, <<5, 1>>, <<6, 1>>, <<74, 10>>, <<12, 1>>,
     <<13, 1>>, <<15, 1>>}

VinLimitOps ==
    {[Cmd("vin_limit_write", 1) EXCEPT !.min_value = a, !.max_value = b] :
        a \in VoltArgs, b \in VoltArgs}

(* Temperatures, far below and far above the range included; the unit is the
   default 'F' unless given *)
TempArgs ==
    {<<-1000, 1>>, <<0, 1>>, <<50, 1>>, <<75, 1>>, <<100, 1>>, <<122, 1>>,
     <<150, 1>>, <<167, 1>>, <<212, 1>>, <<213, 1>>, <<1000, 1>>, <<100000, 1>>}

(* Unit strings: the four of test_temp_unit_validation and others *)
UnitStrings ==
    {"C", "F", "c", "f", "K", "k", "", "c ", "cf", "CF", "Celsius", "fahrenheit", "0"}

TempLimitOps ==
    {[Cmd("temp_max_limit_write", 1) EXCEPT !.temp = x] : x \in TempArgs}
    \cup {[Cmd("temp_max_limit_write", 1) EXCEPT !.temp = x, !.units = u] :
             x \in TempArgs, u \in {"C", "f", "K"}}
    \cup {[Cmd("temp_max_limit_write", 255) EXCEPT !.temp = <<75, 1>>, !.units = u] :
             u \in {"c", ""}}
    \cup {[Cmd("temp_max_limit_read", i) EXCEPT !.units = u] :
             i \in {1, 255}, u \in UnitStrings}
    \cup {[Cmd("temp_read", 1) EXCEPT !.units = u] : u \in UnitStrings}

(* utils._validate_temp_units(units) called on its own *)
ValidateOps ==
    {[NoOp EXCEPT !.kind = "validate", !.name = "_validate_temp_units", !.units = u] :
        u \in UnitStrings}

(* Times in seconds: negative, zero, sixteenths (a tie of milliseconds), the
   limit and beyond *)
TimeArgs ==
    {<<-1, 1>>, <<0, 1>>, <<1, 16>>, <<3, 16>>, <<1, 1>>, <<30, 1>>, <<31, 1>>,
     <<1000, 1>>}

MoveAngleArgs == {<<-1, 1>>, <<1, 8>>, <<120, 1>>, <<300, 1>>}

(* move_time_write(servo_id, angle_degrees, time_s, wait) and
   move_time_wait_write(servo_id, angle_degrees, time_s); the angle is held in
   min_value *)
MoveTimeOps ==
    {[Cmd("move_time_write", 1) EXCEPT !.min_value = a, !.time_s = s, !.wait = w] :
        a \in MoveAngleArgs, s \in TimeArgs, w \in BOOLEAN}
    \cup {[Cmd("move_time_wait_write", 1) EXCEPT !.min_value = a, !.time_s = s] :
             a \in MoveAngleArgs, s \in TimeArgs}

(* velocity_read over the servo ids given *)
VelOps ==
    {[NoOp EXCEPT !.kind = "vel", !.name = "velocity_read", !.servo_ids = s] :
        s \in {<<>>, <<1>>, <<1, 2>>, <<1, 255>>, <<255, 1>>}}

(* move_speed_write to a servo and to an address out of range *)
MswCallOps ==
    {[NoOp EXCEPT !.kind = "msw", !.name = "move_speed_write", !.servo_id = i,
                  !.command = _SERVO_POS_READ, !.angle_degrees = 120,
                  !.speed_dps = 60] : i \in {1, 255}}

(* move_speed_write with speed_dps = 0 *)
MswZeroOps ==
    {[NoOp EXCEPT !.kind = "msw", !.name = "move_speed_write", !.servo_id = 1,
                  !.command = _SERVO_POS_READ, !.angle_degrees = a,
                  !.speed_dps = 0] : a \in {0, 120}}

(* _send_packet(servo_id, command, parameters) called directly *)
RawOps ==
    {[NoOp EXCEPT !.kind = "send", !.name = "_send_packet", !.servo_id = a.servo_id,
                  !.command = a.command, !.parameters = a.parameters] :
        a \in {Frame(0, 0, <<>>), Frame(1, 255, <<1, 2, 3>>),
               Frame(BROADCAST_ID, 1, <<232, 3, 244, 1>>),
               Frame(MAX_ID, 200, Fill(255, 252)), Frame(1, 11, Fill(0, 253)),
               Frame(-1, 11, <<>>), Frame(255, 11, <<7>>), Frame(1, -1, <<>>),
               Frame(1, 256, <<7>>)}}

(* A public command starts: its own checks, then its first frame *)
CmdBegin(t, o) ==
    /\ pc[t] = "idle"
    /\ op' = [op EXCEPT ![t] = o]
    /\ LET m == Marshal(o)
       IN  IF m.raise # NoResult
           THEN /\ Raise(t, m.raise)
                /\ UNCHANGED req
           ELSE IF m.send = <<>>
           THEN /\ result' = [result EXCEPT ![t] = ReturnedValue(<<>>)]
                /\ pc' = [pc EXCEPT ![t] = "done"]
                /\ UNCHANGED <<req, stack>>
           ELSE /\ req' = [req EXCEPT ![t] = m.send[1]]
                /\ stack' = [stack EXCEPT ![t] =
                                IF m.reads THEN <<"cmd", "sr">> ELSE <<"cmd", "sp">>]
                /\ pc' = [pc EXCEPT ![t] = IF m.reads THEN "sr_lock" ELSE "sp_enter"]
                /\ UNCHANGED result
    /\ UNCHANGED <<cfgvars, lockOwner, lockCount, rxbuf, inflight, next_resp, wire,
                   rcv, held, trace>>

(* _send_packet has returned to the command: its next frame, or the end *)
CmdNext(t) ==
    /\ pc[t] = "cmd_next"
    /\ LET m == Marshal(op[t])
           k == trace[t].writes
       IN  IF k < Len(m.send)
           THEN /\ req' = [req EXCEPT ![t] = m.send[k + 1]]
                /\ stack' = [stack EXCEPT ![t] = @ \o <<"sp">>]
                /\ pc' = [pc EXCEPT ![t] = "sp_enter"]
                /\ UNCHANGED result
           ELSE /\ result' = [result EXCEPT ![t] = ReturnedValue(<<>>)]
                /\ stack' = [stack EXCEPT ![t] =
                                IF InExit(t) THEN <<"exit">> ELSE <<>>]
                /\ pc' = [pc EXCEPT ![t] =
                             IF InExit(t) THEN "exit_finally" ELSE "done"]
                /\ UNCHANGED req
    /\ trace' = [trace EXCEPT ![t].slept =
                    IF trace[t].writes < Len(Marshal(op[t]).send) THEN @
                    ELSE Marshal(op[t]).sleep]
    /\ UNCHANGED <<cfgvars, lockOwner, lockCount, rxbuf, inflight, next_resp, wire,
                   op, rcv, held>>

(* _send_and_receive_packet has returned the response to the command *)
CmdDecode(t) ==
    /\ pc[t] = "cmd_decode"
    /\ result' = [result EXCEPT ![t] = Unmarshal(op[t], trace[t].response.parameters)]
    /\ stack' = [stack EXCEPT ![t] = <<>>]
    /\ pc' = [pc EXCEPT ![t] = "done"]
    /\ UNCHANGED <<cfgvars, lockOwner, lockCount, rxbuf, inflight, next_resp, wire,
                   op, req, rcv, held, trace>>

(* utils._validate_temp_units(units) *)
ValidateTempUnits(t, o) ==
    /\ pc[t] = "idle"
    /\ op' = [op EXCEPT ![t] = o]
    /\ result' = [result EXCEPT ![t] = _validate_temp_units_return(o.units)]
    /\ pc' = [pc EXCEPT ![t] = "done"]
    /\ UNCHANGED <<cfgvars, lockOwner, lockCount, rxbuf, inflight, next_resp, wire,
                   stack, req, rcv, held, trace>>

(* velocity_read: the first pos_read of the first list comprehension *)
VelocityReadBegin(t, o) ==
    /\ pc[t] = "idle"
    /\ op' = [op EXCEPT ![t] = o]
    /\ IF o.servo_ids = <<>>
       THEN /\ result' = [result EXCEPT ![t] = ReturnedValue(<<>>)]
            /\ pc' = [pc EXCEPT ![t] = "done"]
            /\ UNCHANGED <<req, stack>>
       ELSE /\ req' = [req EXCEPT ![t] = pos_read(o.servo_ids[1]).send[1]]
            /\ stack' = [stack EXCEPT ![t] = <<"vel", "sr">>]
            /\ pc' = [pc EXCEPT ![t] = "sr_lock"]
            /\ UNCHANGED result
    /\ UNCHANGED <<cfgvars, lockOwner, lockCount, rxbuf, inflight, next_resp, wire,
                   rcv, held, trace>>

(* The velocities: position1 - position0 per servo, over the time between the
   two samples (which the model does not measure) *)
Velocities(positions, n) ==
    [i \in 1..n |-> <<positions[n + i][1] - positions[i][1], 1000>>]

(* velocity_read: a pos_read has returned; the next servo, the second round
   after the sleep, or the velocities *)
VelocityReadNext(t) ==
    /\ pc[t] = "vel_next"
    /\ LET o == op[t]
           n == Len(o.servo_ids)
           r == pos_read_return(trace[t].response.parameters)
           positions == Append(result[t].value, r.value)
           k == Len(positions)
       IN  IF r.status # "ok"
           THEN /\ Raise(t, r)
                /\ UNCHANGED req
           ELSE IF k < 2 * n
           THEN /\ result' = [result EXCEPT ![t].value = positions]
                /\ req' = [req EXCEPT ![t] = pos_read(o.servo_ids[(k % n) + 1]).send[1]]
                /\ stack' = [stack EXCEPT ![t] = <<"vel", "sr">>]
                /\ pc' = [pc EXCEPT ![t] = "sr_lock"]
           ELSE /\ result' = [result EXCEPT ![t] = ReturnedValue(Velocities(positions, n))]
                /\ stack' = [stack EXCEPT ![t] = <<>>]
                /\ pc' = [pc EXCEPT ![t] = "done"]
                /\ UNCHANGED req
    /\ UNCHANGED <<cfgvars, lockOwner, lockCount, rxbuf, inflight, next_resp, wire,
                   op, rcv, held, trace>>

----------------------------------------------------------------------------
(* Specifications *)

InitBus ==
    /\ on_exit_power_off = TRUE
    /\ _close_on_exit = TRUE
    /\ closed = FALSE
    /\ self_id = 1
    /\ lockOwner = 0
    /\ lockCount = 0
    /\ rxbuf = <<>>
    /\ inflight = <<>>
    /\ wire = <<>>
    /\ stack = [t \in Callers |-> <<>>]
    /\ op = [t \in Callers |-> NoOp]
    /\ req = [t \in Callers |-> NoReq]
    /\ rcv = [t \in Callers |-> NoRcv]
    /\ result = [t \in Callers |-> NoResult]
    /\ held = [t \in Callers |-> 0]
    /\ trace = [t \in Callers |-> NoTrace]

(* Several callers on one bus built with the constructor's defaults, on a
   half-duplex line that echoes; the servos answer, in time or too late *)
Init ==
    /\ InitBus
    /\ verify_checksum = TRUE
    /\ discard_echo = TRUE
    /\ hw_echo = TRUE
    /\ has_reset = TRUE
    /\ next_resp \in WorkingResps
    /\ pc = [t \in Callers |-> "idle"]

Next ==
    \/ \E t \in Callers, o \in BusOps : Begin(t, o)
    \/ \E t \in Callers : SendPacketEnter(t)
    \/ \E t \in Callers : SendPacketLock(t)
    \/ \E t \in Callers : SendPacketFlush(t)
    \/ \E t \in Callers : SendPacketWrite(t, WorkingResps)
    \/ \E t \in Callers : SendPacketEcho(t)
    \/ \E t \in Callers : SendPacketUnlock(t)
    \/ \E t \in Callers : ReceivePacketLock(t)
    \/ \E t \in Callers : ReceivePacketHeader(t)
    \/ \E t \in Callers : ReceivePacketFields(t)
    \/ \E t \in Callers : ReceivePacketParams(t)
    \/ \E t \in Callers : ReceivePacketChecksum(t)
    \/ \E t \in Callers : ReceivePacketUnlock(t)
    \/ \E t \in Callers : SendAndReceiveLock(t)
    \/ \E t \in Callers : SendAndReceiveUnlock(t)
    \/ \E t \in Callers : MoveSpeedWriteMove(t)
    \/ Arrive

Spec == Init /\ [][Next]_vars

(* One caller, every configuration, a device that may answer anything *)
InitCall ==
    /\ InitBus
    /\ verify_checksum \in BOOLEAN
    /\ discard_echo \in BOOLEAN
    /\ hw_echo \in BOOLEAN
    /\ has_reset \in BOOLEAN
    /\ next_resp \in RichResps
    /\ pc = [t \in Callers |-> IF t = 1 THEN "idle" ELSE "done"]

NextCall ==
    \/ \E t \in Callers, o \in AllOps : Begin(t, o)
    \/ \E t \in Callers : SendPacketEnter(t)
    \/ \E t \in Callers : SendPacketLock(t)
    \/ \E t \in Callers : SendPacketFlush(t)
    \/ \E t \in Callers : SendPacketWrite(t, RichResps)
    \/ \E t \in Callers : SendPacketEcho(t)
    \/ \E t \in Callers : SendPacketUnlock(t)
    \/ \E t \in Callers : ReceivePacketLock(t)
    \/ \E t \in Callers : ReceivePacketHeader(t)
    \/ \E t \in Callers : ReceivePacketFields(t)
    \/ \E t \in Callers : ReceivePacketParams(t)
    \/ \E t \in Callers : ReceivePacketChecksum(t)
    \/ \E t \in Callers : ReceivePacketUnlock(t)
    \/ \E t \in Callers : SendAndReceiveLock(t)
    \/ \E t \in Callers : SendAndReceiveUnlock(t)
    \/ \E t \in Callers : MoveSpeedWriteMove(t)
    \/ Arrive

SpecCall == InitCall /\ [][NextCall]_vars

(* One caller on a bus built with the constructor's defaults, every public
   command modelled, a device that may answer anything *)
InitCmd ==
    /\ InitBus
    /\ verify_checksum = TRUE
    /\ discard_echo = TRUE
    /\ hw_echo = TRUE
    /\ has_reset = TRUE
    /\ next_resp \in CmdResps
    /\ pc = [t \in Callers |-> IF t = 1 THEN "idle" ELSE "done"]

NextCmd ==
    \/ \E t \in Callers, o \in WriteCmdOps \cup ReadCmdOps \cup LedErrorOps
                                 \cup AngleLimitOps \cup VinLimitOps
                                 \cup TempLimitOps \cup MoveTimeOps :
          CmdBegin(t, o)
    \/ \E t \in Callers, o \in VelOps : VelocityReadBegin(t, o)
    \/ \E t \in Callers, o \in ValidateOps : ValidateTempUnits(t, o)
    \/ \E t \in Callers, o \in MswCallOps \cup MswZeroOps \cup RawOps : Begin(t, o)
    \/ \E t \in Callers : CmdNext(t)
    \/ \E t \in Callers : CmdDecode(t)
    \/ \E t \in Callers : VelocityReadNext(t)
    \/ \E t \in Callers : SendPacketEnter(t)
    \/ \E t \in Callers : SendPacketLock(t)
    \/ \E t \in Callers : SendPacketFlush(t)
    \/ \E t \in Callers : SendPacketWrite(t, CmdResps)
    \/ \E t \in Callers : SendPacketEcho(t)
    \/ \E t \in Callers : SendPacketUnlock(t)
    \/ \E t \in Callers : ReceivePacketLock(t)
    \/ \E t \in Callers : ReceivePacketHeader(t)
    \/ \E t \in Callers : ReceivePacketFields(t)
    \/ \E t \in Callers : ReceivePacketParams(t)
    \/ \E t \in Callers : ReceivePacketChecksum(t)
    \/ \E t \in Callers : ReceivePacketUnlock(t)
    \/ \E t \in Callers : SendAndReceiveLock(t)
    \/ \E t \in Callers : SendAndReceiveUnlock(t)
    \/ \E t \in Callers : MoveSpeedWriteMove(t)
    \/ Arrive

SpecCmd == InitCmd /\ [][NextCmd]_vars

(* Decode alone: _receive_packet on a given input stream, as the tests call it *)
GoodFrameArgs ==
    {[servo_id |-> 1, command |-> _SERVO_POS_READ, parameters |-> PosParams],
     [servo_id |-> 2, command |-> 32, parameters |-> <<1>>],
     [servo_id |-> 3, command |-> 14, parameters |-> <<>>]}

FrameOf(a) == BuildPacket(a.servo_id, a.command, a.parameters)

(* Noise that holds no complete header and is shorter than the ceiling *)
NoisePrefixes ==
    {<<255>>, <<255, 255>>, NoisePrefix, <<SYNC, 170>>, Fill(255, 1000),
     Fill(255, NoiseCeiling - 1)}

(* Noise longer than the ceiling that never holds the header *)
LongNoise == {Fill(255, 3000), Fill(255, NoiseCeiling + 1)}

DecodeInputs ==
    LET in(s, l) == [stream |-> s, late |-> l]
    IN  UNION {
          {in(FrameOf(a), <<>>), in(BadSum(FrameOf(a)), <<>>)}
          \cup {in(Take(FrameOf(a), k), <<>>) : k \in 0..(Len(FrameOf(a)) - 1)}
          \cup {in(Take(FrameOf(a), k), <<Drop(FrameOf(a), k)>>) :
                   k \in 0..(Len(FrameOf(a)) - 1)}
          \cup {in(Take(SplitFrame(a.servo_id, a.command), 6),
                   <<Drop(SplitFrame(a.servo_id, a.command), 6)>>)}
          \cup {in(n \o FrameOf(a), <<>>) : n \in NoisePrefixes}
          \cup {in(FrameOf(a) \o FrameOf(b), <<>>) : b \in GoodFrameArgs}
          \cup {in(Take(SplitFrame(a.servo_id, a.command), 6),
                   <<Drop(SplitFrame(a.servo_id, a.command), 6) \o FrameOf(a)>>)}
          : a \in GoodFrameArgs}
        \cup {in(n, <<>>) : n \in LongNoise}

InitDecode ==
    /\ on_exit_power_off = TRUE
    /\ _close_on_exit = TRUE
    /\ closed = FALSE
    /\ self_id = 1
    /\ lockOwner = 0
    /\ lockCount = 0
    /\ wire = <<>>
    /\ verify_checksum \in BOOLEAN
    /\ discard_echo = TRUE
    /\ hw_echo = TRUE
    /\ has_reset = TRUE
    /\ next_resp = "none"
    /\ \E i \in DecodeInputs :
          /\ rxbuf = i.stream
          /\ inflight = i.late
          /\ op = [t \in Callers |->
                     IF t = 1 THEN [NoOp EXCEPT !.kind = "recv", !.stream = i.stream,
                                               !.late = i.late]
                     ELSE NoOp]
    /\ pc = [t \in Callers |-> IF t = 1 THEN "rp_lock" ELSE "done"]
    /\ stack = [t \in Callers |-> IF t = 1 THEN <<"rp">> ELSE <<>>]
    /\ req = [t \in Callers |-> NoReq]
    /\ rcv = [t \in Callers |-> NoRcv]
    /\ result = [t \in Callers |-> NoResult]
    /\ held = [t \in Callers |-> 0]
    /\ trace = [t \in Callers |-> NoTrace]

NextDecode ==
    \/ \E t \in Callers : ReceivePacketLock(t)
    \/ \E t \in Callers : ReceivePacketHeader(t)
    \/ \E t \in Callers : ReceivePacketFields(t)
    \/ \E t \in Callers : ReceivePacketParams(t)
    \/ \E t \in Callers : ReceivePacketChecksum(t)
    \/ \E t \in Callers : ReceivePacketUnlock(t)
    \/ Arrive

SpecDecode == InitDecode /\ [][NextDecode]_vars

----------------------------------------------------------------------------
(* Properties *)

Done(t, kind) == pc[t] = "done" /\ op[t].kind = kind

PacketOf(a) == [servo_id |-> a.servo_id, command |-> a.command, parameters |-> a.parameters]

(* C1: decode resynchronises on noise: a noise prefix below the ceiling that
   holds no complete header (a false start 55 AA included, 1000 bytes of FF
   included), then the header and a checksum-correct frame, all of it readable:
   _receive_packet returns that frame's address, opcode and parameters and
   raises nothing. *)
C1_NoiseResync ==
    \A t \in Callers : \A n \in NoisePrefixes : \A a \in GoodFrameArgs :
        (Done(t, "recv") /\ op[t].stream = n \o FrameOf(a) /\ op[t].late = <<>>)
            => result[t] = Returned(PacketOf(a))

(* C2: decode of noise longer than the ceiling that never holds the header
   stops at the ceiling and fails with a ServoBusError saying 'Timed out'. *)
C2_LongNoiseTimesOut ==
    \A t \in Callers :
        (Done(t, "recv") /\ op[t].stream \in LongNoise /\ op[t].late = <<>>)
            => /\ result[t].status = "error"
               /\ result[t].type = "ServoBusError"
               /\ result[t].msg = "Timed out"
               /\ Len(op[t].stream) - Len(rxbuf) <= NoiseCeiling

(* The device answers a second attempt of caller t with a valid frame *)
SecondAttemptValid(t) ==
    IF Len(trace[t].resps) >= 2 THEN trace[t].resps[2] = "valid" ELSE next_resp = "valid"

(* C3: _send_and_receive_packet retries and succeeds: the first attempt's
   response read comes back empty, the second attempt is answered with a valid
   frame of the request's address and opcode: the call returns that frame. *)
C3_RetrySucceeds ==
    \A t \in Callers :
        (/\ Done(t, "sr")
         /\ hw_echo = discard_echo
         /\ trace[t].resps # <<>>
         /\ trace[t].resps[1] = "none"
         /\ "header" \in trace[t].short
         /\ SecondAttemptValid(t))
            => /\ result[t].status = "ok"
               /\ result[t].packet.servo_id = op[t].servo_id
               /\ result[t].packet.command = op[t].command

(* C4: at most RetryBudget attempts, one frame written per attempt, and a call
   that ends with a bus error has used the whole budget: a failed attempt is
   followed by another one while budget remains. *)
C4_RetryUntilBudget ==
    \A t \in Callers :
        /\ trace[t].writes <= RetryBudget
        /\ (Done(t, "sr") /\ result[t].status = "error"
                /\ result[t].type = "ServoBusError")
              => trace[t].writes = RetryBudget

(* C5: a frame returned by _send_and_receive_packet carries the requested
   address and opcode; a decoded response with another address or opcode is
   never handed on (returned, or used by move_speed_write) but raises the
   mismatch error. *)
C5_ResponseMatchesRequest ==
    \A t \in Callers :
        /\ (Done(t, "sr") /\ result[t].status = "ok")
              => /\ result[t].packet.servo_id = op[t].servo_id
                 /\ result[t].packet.command = op[t].command
        /\ (/\ op[t].kind \in {"sr", "msw"}
            /\ trace[t].response # NoPacket
            /\ pc[t] # "sr_unlock"
            /\ \/ trace[t].response.servo_id # op[t].servo_id
               \/ trace[t].response.command # op[t].command)
              => /\ pc[t] = "done"
                 /\ result[t].status = "error"
                 /\ result[t].type = "ServoBusError"
                 /\ result[t].msg \in {"servo ID does not match", "command does not match"}

C5_Witness ==
    \E t \in Callers :
        /\ Done(t, "sr")
        /\ trace[t].response.servo_id = op[t].servo_id
        /\ trace[t].response.command # op[t].command
        /\ result[t].msg = "command does not match"

(* ~x & 0xFF *)
Complement8(x) == 255 - (x % 256)

(* C6: with verify_checksum on, _receive_packet returns no frame whose checksum
   byte differs from ~(address + length + opcode + sum(parameters)) & 0xFF: it
   raises the checksum error carrying the received and the computed value; with
   verify_checksum off the same frame is returned. *)
C6_ChecksumVerified ==
    \A t \in Callers :
        Done(t, "recv") =>
            LET r == rcv[t]
                computed == Complement8(r.servo_id + r.length + r.command
                                        + Sum(r.parameters))
            IN  /\ (verify_checksum /\ result[t].status = "ok")
                      => r.checksum = computed
                /\ (verify_checksum /\ trace[t].complete /\ r.checksum # computed)
                      => result[t] = ChecksumError(r.checksum, computed)
                /\ (~verify_checksum /\ trace[t].complete)
                      => result[t] = Returned(PacketOf(r))

C6_Witness ==
    \E t \in Callers :
        /\ Done(t, "recv")
        /\ verify_checksum
        /\ trace[t].complete
        /\ result[t].msg = "Checksum failed"
        /\ result[t].received # result[t].actual

(* C7: a read that returns fewer bytes than asked for, in the header, the three
   fixed fields, the parameters or the checksum, ends the decode with a
   ServoBusError, never another exception and never a returned frame. *)
C7_ShortReadIsTimeout ==
    \A t \in Callers :
        (Done(t, "recv") /\ trace[t].short # {})
            => /\ result[t].status = "error"
               /\ result[t].type = "ServoBusError"

(* Caller t is inside a request: its _send_and_receive_packet has flushed the
   input and its response read has not completed *)
InRequest(t) ==
    /\ Len(stack[t]) >= 2
    /\ stack[t][Len(stack[t]) - 1] = "sr"
    /\ pc[t] \in {"sp_write", "sp_echo", "sp_unlock", "rp_lock", "rp_header",
                  "rp_fields", "rp_params", "rp_cksum"}

(* Positions whose next step is a transport operation *)
TransportPcs ==
    {"sp_flush", "sp_write", "sp_echo", "rp_header", "rp_fields", "rp_params",
     "rp_cksum"}

TransportStep(u) == pc[u] \in TransportPcs /\ pc'[u] # pc[u]

LockPcs == {"sp_lock", "rp_lock", "sr_lock"}

(* C8: channel access is serialised per request: while a caller is inside a
   request no other caller flushes, writes or reads; at most one caller is at
   a transport operation at any time. *)
C8_RequestSerialised ==
    /\ [](Cardinality({t \in Callers : pc[t] \in TransportPcs}) <= 1)
    /\ [][\A t \in Callers : \A u \in Callers :
             (t # u /\ InRequest(t)) => ~TransportStep(u)]_vars

C8_Witness ==
    \E t \in Callers : \E u \in Callers :
        /\ t # u
        /\ InRequest(t)
        /\ pc[t] = "rp_lock"
        /\ pc[u] \in LockPcs

(* C9: a composite command is not interleaved: between the first and the last
   frame move_speed_write puts on the wire there is no other caller's frame. *)
C9_CompositeNotInterleaved ==
    \A t \in Callers :
        op[t].kind = "msw" =>
            \A i \in DOMAIN wire : \A j \in DOMAIN wire : \A k \in DOMAIN wire :
                (i < j /\ j < k /\ wire[i].by = t /\ wire[k].by = t)
                    => wire[j].by = t

LockStep(t) == SendPacketLock(t) \/ ReceivePacketLock(t) \/ SendAndReceiveLock(t)

(* C10: the lock is reentrant: its holder passes a nested acquisition without
   blocking, and no other caller acquires it before the holder has left all
   of its nested with blocks. *)
C10_LockReentrant ==
    /\ [](\A t \in Callers :
             (lockOwner = t /\ pc[t] \in LockPcs) => ENABLED LockStep(t))
    /\ [](\A t \in Callers :
             /\ lockOwner = t => lockCount = held[t]
             /\ lockOwner # t => held[t] = 0)
    /\ [][\A u \in Callers :
             (lockOwner # 0 /\ lockOwner # u) => held'[u] <= held[u]]_vars

C10_Witness ==
    \E t \in Callers : \E u \in Callers :
        /\ t # u
        /\ lockOwner = t
        /\ lockCount = 2
        /\ pc[u] \in LockPcs

----------------------------------------------------------------------------
(* Properties of the public commands *)

ByteRange == 0..255

(* The frames caller t has written, in order *)
FramesBy(t) == SelectSeq(wire, LAMBDA w : w.by = t)

(* Caller t has read nothing from the transport *)
NothingRead(t) == rcv[t] = NoRcv /\ trace[t].short = {} /\ ~trace[t].complete

(* An argument of the call is outside its protocol range *)
ArgumentOutOfRange(o) ==
    \/ o.kind \in {"cmd", "send", "msw"} /\ o.servo_id \notin 0..254
    \/ o.kind = "vel" /\ \E i \in DOMAIN o.servo_ids : o.servo_ids[i] \notin 0..254
    \/ o.kind = "send" /\ o.command \notin ByteRange
    \/ o.name \in {"id_write", "is_powered"} /\ o.servo_id \notin 0..253
    \/ o.name = "id_write" /\ o.new_id \notin 0..253
    \/ o.name = "angle_offset_adjust" /\ o.offset_degrees \notin -30..30
    \/ o.name = "mode_write" /\ Lower(o.mode) \notin {"servo", "motor"}
    \/ o.name = "mode_write" /\ Lower(o.mode) = "motor" /\ ~o.has_speed
    \/ o.name = "temp_read" /\ Upper(o.units) \notin {"C", "F"}

(* C11: in every command, velocity_read over several addresses,
   move_speed_write and angle_offset_adjust with write=True included, an
   argument outside its protocol range is rejected with ValueError before the
   call has written a byte to or read a byte from the transport, and the call
   is not retried. *)
C11_InvalidArgumentBeforeAnyByte ==
    \A t \in Callers :
        ArgumentOutOfRange(op[t]) =>
            /\ FramesBy(t) = <<>>
            /\ trace[t].writes = 0
            /\ NothingRead(t)
            /\ pc[t] = "done" =>
                   (result[t].status = "error" /\ result[t].type = "ValueError")

(* The same with velocity_read left out *)
InvalidArgumentBeforeAnyByteSingle ==
    \A t \in Callers :
        (ArgumentOutOfRange(op[t]) /\ op[t].kind # "vel") =>
            /\ FramesBy(t) = <<>>
            /\ NothingRead(t)
            /\ pc[t] = "done" =>
                   (result[t].status = "error" /\ result[t].type = "ValueError")

(* The frames of caller t that carry a move command *)
MoveFramesBy(t) ==
    SelectSeq(FramesBy(t), LAMBDA w : w.bytes[5] = _SERVO_MOVE_TIME_WRITE)

(* The error pos_read ends with when the device's answer to the position read
   is of the given kind and every read got all the bytes it asked for *)
PosReadFailure(kind) ==
    CASE kind = "wrong_id"  -> Raised("ServoBusError", "servo ID does not match")
      [] kind = "wrong_cmd" -> Raised("ServoBusError", "command does not match")
      [] kind = "bad_sum"   -> Raised("ServoBusError", "Checksum failed")

(* C12: move_speed_write propagates the errors of its position read unchanged
   and writes no move frame when it fails (timeout, checksum mismatch,
   address or opcode mismatch, invalid address); the move frame is written
   only after the position read has succeeded, and to the same address. *)
C12_MoveSpeedWritePropagates ==
    \A t \in Callers :
        op[t].kind = "msw" =>
            /\ MoveFramesBy(t) # <<>> =>
                  /\ Len(FramesBy(t)) = 2
                  /\ FramesBy(t)[1].bytes =
                         BuildPacket(op[t].servo_id, _SERVO_POS_READ, <<>>)
                  /\ FramesBy(t)[2].bytes[5] = _SERVO_MOVE_TIME_WRITE
                  /\ FramesBy(t)[2].bytes[3] = op[t].servo_id
                  /\ trace[t].response.servo_id = op[t].servo_id
                  /\ trace[t].response.command = _SERVO_POS_READ
                  /\ Len(trace[t].response.parameters) = 2
            /\ (pc[t] = "done" /\ result[t].status = "error") =>
                  /\ MoveFramesBy(t) = <<>>
                  /\ Len(FramesBy(t)) <= 1
            /\ (pc[t] = "done" /\ op[t].servo_id \notin 0..254) =>
                  /\ result[t].type = "ValueError"
                  /\ FramesBy(t) = <<>>
            /\ (pc[t] = "done" /\ trace[t].resps # <<>> /\ trace[t].short = {}
                  /\ trace[t].resps[1] \in {"wrong_id", "wrong_cmd", "bad_sum"}) =>
                  /\ [result[t] EXCEPT !.received = -1, !.actual = -1]
                         = PosReadFailure(trace[t].resps[1])
                  /\ MoveFramesBy(t) = <<>>
            /\ (pc[t] = "done" /\ trace[t].resps # <<>> /\ trace[t].resps[1] = "none"
                  /\ trace[t].short = {"header"}) =>
                  /\ result[t] = Raised("ServoBusError", "Expected header")
                  /\ MoveFramesBy(t) = <<>>

C12_Witness ==
    \E t \in Callers :
        /\ Done(t, "msw")
        /\ result[t].status = "error"
        /\ result[t].msg = "Checksum failed"
        /\ Len(FramesBy(t)) = 1
        /\ trace[t].resps = <<"bad_sum">>

(* Parameter bytes in the wire layout of each read command's response *)
LayoutLen(name) ==
    CASE name = "pos_read"      -> 2
      [] name = "temp_read"     -> 1
      [] name = "mode_read"     -> 4
      [] name = "is_powered"    -> 1
      [] name = "led_ctrl_read" -> 1

ReadNames == {"pos_read", "temp_read", "mode_read", "is_powered", "led_ctrl_read"}

(* The read commands among `names` return a value only on a response with
   exactly the parameter bytes of their layout *)
NoFallback(names) ==
    \A t \in Callers :
        (Done(t, "cmd") /\ op[t].name \in names /\ result[t].status = "ok") =>
            /\ trace[t].response.servo_id = op[t].servo_id
            /\ trace[t].response.command = Marshal(op[t]).send[1].command
            /\ Len(trace[t].response.parameters) = LayoutLen(op[t].name)

(* C13: no fallback value substitution: a response-reading command (pos_read,
   temp_read, mode_read, is_powered, led_ctrl_read) returns a value only when
   the response carried exactly the number of parameter bytes of its layout;
   with too few or too many it raises instead of returning a value. *)
C13_NoFallbackValue == NoFallback(ReadNames)

(* The commands that unpack their response with a struct *)
StructReadsExact == NoFallback({"pos_read", "mode_read"})

WriteOnlyNames == {"move_start", "move_stop", "set_powered", "led_ctrl_write"}

ReceivePcs ==
    {"sr_lock", "sr_unlock", "rp_lock", "rp_header", "rp_fields", "rp_params",
     "rp_cksum", "rp_unlock", "cmd_decode"}

(* C14: exactly-once for write-only commands: a call of move_start, move_stop,
   set_powered or led_ctrl_write to any address in [0, 254], the broadcast
   address included, writes exactly one frame, waits for no response frame
   and never sends the frame again. *)
C14_WriteOnlyExactlyOnce ==
    \A t \in Callers :
        (op[t].kind = "cmd" /\ op[t].name \in WriteOnlyNames
           /\ op[t].servo_id \in 0..254) =>
            /\ Len(FramesBy(t)) <= 1
            /\ trace[t].writes = Len(FramesBy(t))
            /\ pc[t] \notin ReceivePcs
            /\ rcv[t] = NoRcv
            /\ trace[t].response = NoPacket
            /\ "header" \notin trace[t].short
            /\ pc[t] = "done" =>
                  /\ result[t] = ReturnedValue(<<>>)
                  /\ Len(FramesBy(t)) = 1
                  /\ FramesBy(t)[1].bytes =
                         BuildPacket(op[t].servo_id, Marshal(op[t]).send[1].command,
                                     Marshal(op[t]).send[1].parameters)
                  /\ FramesBy(t)[1].bytes[3] = op[t].servo_id

C14_Witness ==
    \E t \in Callers :
        /\ Done(t, "cmd")
        /\ op[t].name = "move_start"
        /\ op[t].servo_id = BROADCAST_ID
        /\ Len(FramesBy(t)) = 1

(* The frame layout: 0x55 0x55, address, length, opcode, parameters, checksum *)
EncodedAs(bytes, address, opcode, parameters) ==
    LET length == 3 + Len(parameters)
    IN  /\ Len(bytes) = Len(parameters) + 6
        /\ bytes[1] = 85
        /\ bytes[2] = 85
        /\ bytes[3] = address
        /\ bytes[4] = length
        /\ bytes[5] = opcode
        /\ SubSeq(bytes, 6, Len(bytes) - 1) = parameters
        /\ bytes[Len(bytes)] = Complement8(address + length + opcode + Sum(parameters))
        /\ \A i \in DOMAIN bytes : bytes[i] \in ByteRange

(* C15: encode: for an address in [0, 254], an opcode in [0, 255] and a
   parameter sequence (of at most 252 bytes, as a frame holds), what
   _send_packet writes is exactly 0x55 0x55 address length opcode parameters
   checksum with length = 3 + number of parameter bytes and checksum =
   ~(address + length + opcode + sum(parameters)) & 0xFF; for an address or an
   opcode outside those ranges it raises ValueError and writes nothing. *)
C15_Encode ==
    \A t \in Callers :
        op[t].kind = "send" =>
            IF op[t].servo_id \in 0..254 /\ op[t].command \in ByteRange
            THEN Len(op[t].parameters) <= 252 =>
                    /\ \A i \in DOMAIN FramesBy(t) :
                           EncodedAs(FramesBy(t)[i].bytes, op[t].servo_id,
                                     op[t].command, op[t].parameters)
                    /\ pc[t] = "done" =>
                           (result[t].status = "ok" /\ Len(FramesBy(t)) = 1)
            ELSE /\ FramesBy(t) = <<>>
                 /\ pc[t] = "done" =>
                        (result[t].status = "error" /\ result[t].type = "ValueError")

C15_Witness ==
    \E t \in Callers :
        /\ Done(t, "send")
        /\ Len(op[t].parameters) = 252
        /\ Len(FramesBy(t)) = 1
        /\ FramesBy(t)[1].bytes[4] = 255
        /\ Len(FramesBy(t)[1].bytes) = 258

(* C16: id_write(old, new) writes nothing when new = old; it rejects an old or
   a new id outside [0, 253] before writing, so that it never addresses and
   never assigns the broadcast id 254; otherwise it writes exactly one
   ID_WRITE frame (command 13) addressed to old whose single parameter byte
   is new. *)
C16_IdWrite ==
    \A t \in Callers :
        (op[t].kind = "cmd" /\ op[t].name = "id_write") =>
            LET old == op[t].servo_id
                new == op[t].new_id
            IN  /\ \A i \in DOMAIN FramesBy(t) :
                       /\ FramesBy(t)[i].bytes[3] # 254
                       /\ FramesBy(t)[i].bytes[6] # 254
                /\ (old \notin 0..253 \/ new \notin 0..253) =>
                       /\ FramesBy(t) = <<>>
                       /\ pc[t] = "done" =>
                              (result[t].status = "error"
                                 /\ result[t].type = "ValueError")
                /\ new = old =>
                       /\ FramesBy(t) = <<>>
                       /\ (pc[t] = "done" /\ old \in 0..253) =>
                              result[t] = ReturnedValue(<<>>)
                /\ (old \in 0..253 /\ new \in 0..253 /\ new # old) =>
                       /\ Len(FramesBy(t)) <= 1
                       /\ \A i \in DOMAIN FramesBy(t) :
                              EncodedAs(FramesBy(t)[i].bytes, old, 13, <<new>>)
                       /\ pc[t] = "done" =>
                              (result[t] = ReturnedValue(<<>>) /\ Len(FramesBy(t)) = 1)

C16_Witness ==
    \E t \in Callers :
        /\ Done(t, "cmd")
        /\ op[t].name = "id_write"
        /\ op[t].servo_id = 1
        /\ op[t].new_id = 5
        /\ Len(FramesBy(t)) = 1
        /\ FramesBy(t)[1].bytes = <<85, 85, 1, 4, 13, 5, 232>>

(* The signed 16-bit value of two bytes, low byte first *)
Signed16(lo, hi) ==
    IF lo + 256 * hi >= 32768 THEN lo + 256 * hi - 65536 ELSE lo + 256 * hi

(* C17: mode_write with mode 'motor' encodes flag 1 and the speed clamped to
   [-1000, 1000] (2000 is sent as 1000, -2000 as -1000); with mode 'servo' it
   encodes flag 0 and speed 0 whatever speed was supplied. *)
C17_ModeWriteEncoding ==
    \A t \in Callers :
        (op[t].kind = "cmd" /\ op[t].name = "mode_write") =>
            \A i \in DOMAIN FramesBy(t) :
                LET b == FramesBy(t)[i].bytes
                    v == op[t].speed
                IN  /\ Len(b) = 10
                    /\ b[5] = 29
                    /\ b[7] = 0
                    /\ op[t].mode \in {"motor", "MOTOR"} =>
                           /\ b[6] = 1
                           /\ Signed16(b[8], b[9]) =
                                  (IF v > 1000 THEN 1000
                                   ELSE IF v < -1000 THEN -1000 ELSE v)
                    /\ op[t].mode \in {"servo", "Servo"} =>
                           /\ b[6] = 0
                           /\ Signed16(b[8], b[9]) = 0

C17_Witness ==
    \E t \in Callers :
        /\ Done(t, "cmd")
        /\ op[t].name = "mode_write"
        /\ op[t].mode = "motor"
        /\ op[t].speed = -2000
        /\ Len(FramesBy(t)) = 1
        /\ SubSeq(FramesBy(t)[1].bytes, 6, 9) = <<1, 0, 24, 252>>

(* C18: mode_write fails with ValueError, writing nothing, when the mode is
   neither 'servo' nor 'motor' in any letter case, or when the mode is 'motor'
   and no speed is given; mode 'servo' needs no speed. *)
C18_ModeWriteRejects ==
    \A t \in Callers :
        (op[t].kind = "cmd" /\ op[t].name = "mode_write") =>
            LET motor == op[t].mode \in {"motor", "MOTOR"}
                servo == op[t].mode \in {"servo", "Servo"}
            IN  IF (~motor /\ ~servo) \/ (motor /\ ~op[t].has_speed)
                THEN /\ FramesBy(t) = <<>>
                     /\ trace[t].writes = 0
                     /\ pc[t] = "done" =>
                            (result[t].status = "error"
                               /\ result[t].type = "ValueError")
                ELSE pc[t] = "done" =>
                         (result[t] = ReturnedValue(<<>>) /\ Len(FramesBy(t)) = 1)

C18_Witness ==
    \E t \in Callers :
        /\ Done(t, "cmd")
        /\ op[t].name = "mode_write"
        /\ op[t].mode = "motor"
        /\ ~op[t].has_speed
        /\ result[t] = Raised("ValueError", "speed must be specified")
        /\ FramesBy(t) = <<>>

C18_WitnessServo ==
    \E t \in Callers :
        /\ Done(t, "cmd")
        /\ op[t].name = "mode_write"
        /\ op[t].mode = "Servo"
        /\ ~op[t].has_speed
        /\ Len(FramesBy(t)) = 1

(* Caller t's call has ended on a response that matches its request and
   carries n parameter bytes *)
Answered(t, name, command, n) ==
    /\ Done(t, "cmd")
    /\ op[t].name = name
    /\ trace[t].response.servo_id = op[t].servo_id
    /\ trace[t].response.command = command
    /\ Len(trace[t].response.parameters) = n

(* C19: mode_read maps a response flag 0 to ('servo', None) and a response
   flag 1 to ('motor', speed); for any other flag value it fails with an error
   and returns no mode. *)
C19_ModeReadMapping ==
    \A t \in Callers :
        Answered(t, "mode_read", 30, 4) =>
            LET p == trace[t].response.parameters
            IN  CASE p[1] = 0 -> result[t] = ReturnedValue(<<"servo", "None">>)
                  [] p[1] = 1 ->
                         result[t] = ReturnedValue(<<"motor", Signed16(p[3], p[4])>>)
                  [] OTHER ->
                         /\ result[t].status = "error"
                         /\ result[t].type = "ValueError"
                         /\ result[t].value = <<>>

C19_Witness ==
    \E t \in Callers :
        /\ Answered(t, "mode_read", 30, 4)
        /\ trace[t].response.parameters[1] = 2
        /\ result[t] = Raised("ValueError", "Received unknown mode")

C19_WitnessMotor ==
    \E t \in Callers :
        /\ Answered(t, "mode_read", 30, 4)
        /\ trace[t].response.parameters = <<1, 0, 212, 254>>
        /\ result[t].value = <<"motor", -300>>

(* C20: led_ctrl_read returns True exactly when the raw response byte is 0x00
   and False when it is 0x01; it is the inverse of led_ctrl_write: for both
   states, reading back the byte that led_ctrl_write(state) sent yields
   state. *)
C20_LedCtrlInverse ==
    /\ \A t \in Callers :
           Answered(t, "led_ctrl_read", 34, 1) =>
               /\ result[t].status = "ok"
               /\ result[t].value = <<trace[t].response.parameters[1] = 0>>
               /\ trace[t].response.parameters[1] = 1 => result[t].value = <<FALSE>>
    /\ \A t \in Callers :
           (op[t].kind = "cmd" /\ op[t].name = "led_ctrl_write") =>
               \A i \in DOMAIN FramesBy(t) :
                   LET b == FramesBy(t)[i].bytes
                   IN  /\ Len(b) = 7
                       /\ b[5] = 33
                       /\ b[6] \in {0, 1}
                       /\ led_ctrl_read_return(<<b[6]>>) = ReturnedValue(<<op[t].state>>)

C20_Witness ==
    \E t \in Callers :
        /\ Answered(t, "led_ctrl_read", 34, 1)
        /\ trace[t].response.parameters = <<0>>
        /\ result[t] = ReturnedValue(<<TRUE>>)

C20_WitnessWrite ==
    \E t \in Callers :
        /\ Done(t, "cmd")
        /\ op[t].name = "led_ctrl_write"
        /\ op[t].state
        /\ Len(FramesBy(t)) = 1
        /\ FramesBy(t)[1].bytes[6] = 0

(* C21: led_error_write packs (stalled, over_voltage, over_temp) into one byte
   as bit 2, bit 1, bit 0 (a value in 0..7), and led_error_read applied to
   that byte returns the same three booleans, for all 8 combinations. *)
C21_LedErrorRoundTrip ==
    /\ \A t \in Callers :
           (op[t].kind = "cmd" /\ op[t].name = "led_error_write") =>
               \A i \in DOMAIN FramesBy(t) :
                   LET b == FramesBy(t)[i].bytes
                   IN  /\ Len(b) = 7
                       /\ b[5] = 35
                       /\ b[6] \in 0..7
                       /\ b[6] = 4 * (IF op[t].stalled THEN 1 ELSE 0)
                                   + 2 * (IF op[t].over_voltage THEN 1 ELSE 0)
                                   + (IF op[t].over_temp THEN 1 ELSE 0)
                       /\ led_error_read_return(<<b[6]>>) =
                              ReturnedValue(<<op[t].stalled, op[t].over_voltage,
                                              op[t].over_temp>>)
    /\ \A t \in Callers :
           Answered(t, "led_error_read", 36, 1) =>
               LET p == trace[t].response.parameters[1]
               IN  p \in 0..7 =>
                       result[t] = ReturnedValue(<<p \in {4, 5, 6, 7}, p \in {2, 3, 6, 7},
                                                   p \in {1, 3, 5, 7}>>)

C21_Witness ==
    \E t \in Callers :
        /\ Done(t, "cmd")
        /\ op[t].name = "led_error_write"
        /\ op[t].stalled /\ ~op[t].over_voltage /\ op[t].over_temp
        /\ Len(FramesBy(t)) = 1
        /\ FramesBy(t)[1].bytes[6] = 5

C21_WitnessRead ==
    \E t \in Callers :
        /\ Answered(t, "led_error_read", 36, 1)
        /\ trace[t].response.parameters = <<6>>
        /\ result[t].value = <<TRUE, TRUE, FALSE>>

(* The unsigned 16-bit value of two bytes, low byte first *)
Unsigned16(lo, hi) == lo + 256 * hi

(* k is the number of ticks of angle a = <<n, d>> degrees: a is clamped to
   [0, 240] and k ticks of 0.24 degrees fit in it, k + 1 do not *)
TicksOf(a, k) ==
    LET c == IF a[1] < 0 THEN 0 ELSE IF a[1] > 240 * a[2] THEN 240 * a[2] ELSE a[1]
    IN  240 * a[2] * k <= 1000 * c /\ 1000 * c < 240 * a[2] * (k + 1)

TickCount(a) == CHOOSE k \in 0..1000 : TicksOf(a, k)

(* C22: angle_limit_write clamps each angle to [0, 240], converts it to ticks,
   and fails with ValueError, writing nothing, whenever min_ticks >= max_ticks
   (also when clamping or truncation makes two different inputs equal);
   otherwise it writes one frame with 0 <= min_ticks < max_ticks <= 1000. *)
C22_AngleLimitWrite ==
    \A t \in Callers :
        (op[t].kind = "cmd" /\ op[t].name = "angle_limit_write") =>
            IF TickCount(op[t].min_value) >= TickCount(op[t].max_value)
            THEN /\ FramesBy(t) = <<>>
                 /\ pc[t] = "done" =>
                        (result[t].status = "error" /\ result[t].type = "ValueError")
            ELSE /\ Len(FramesBy(t)) <= 1
                 /\ \A i \in DOMAIN FramesBy(t) :
                        LET b == FramesBy(t)[i].bytes
                        IN  /\ Len(b) = 10
                            /\ b[5] = 20
                            /\ TicksOf(op[t].min_value, Unsigned16(b[6], b[7]))
                            /\ TicksOf(op[t].max_value, Unsigned16(b[8], b[9]))
                            /\ 0 <= Unsigned16(b[6], b[7])
                            /\ Unsigned16(b[6], b[7]) < Unsigned16(b[8], b[9])
                            /\ Unsigned16(b[8], b[9]) <= 1000
                 /\ pc[t] = "done" =>
                        (result[t] = ReturnedValue(<<>>) /\ Len(FramesBy(t)) = 1)

(* Two different angles that truncate to the same tick are rejected *)
C22_Witness ==
    \E t \in Callers :
        /\ Done(t, "cmd")
        /\ op[t].name = "angle_limit_write"
        /\ op[t].min_value = <<1, 16>>
        /\ op[t].max_value = <<1, 8>>
        /\ result[t].type = "ValueError"
        /\ FramesBy(t) = <<>>

C22_WitnessWritten ==
    \E t \in Callers :
        /\ Done(t, "cmd")
        /\ op[t].name = "angle_limit_write"
        /\ op[t].min_value = <<-5, 1>>
        /\ op[t].max_value = <<300, 1>>
        /\ Len(FramesBy(t)) = 1
        /\ SubSeq(FramesBy(t)[1].bytes, 6, 9) = <<0, 0, 232, 3>>

(* The millivolts of v = <<n, d>> volts (a whole number for the voltages
   used), clamped to [4500, 12000] *)
ClampedMv(v) ==
    LET m == (v[1] * 1000) \div v[2]
    IN  IF m < 4500 THEN 4500 ELSE IF m > 12000 THEN 12000 ELSE m

(* C23: vin_limit_write scales both voltages to millivolts, clamps each to
   [4500, 12000], and fails, writing nothing, exactly when min_mV > max_mV
   after clamping; otherwise it writes one frame whose two u16 values lie in
   [4500, 12000] with min_mV <= max_mV. *)
C23_VinLimitWrite ==
    \A t \in Callers :
        (op[t].kind = "cmd" /\ op[t].name = "vin_limit_write") =>
            IF ClampedMv(op[t].min_value) > ClampedMv(op[t].max_value)
            THEN /\ FramesBy(t) = <<>>
                 /\ pc[t] = "done" =>
                        (result[t].status = "error" /\ result[t].type = "ValueError")
            ELSE /\ Len(FramesBy(t)) <= 1
                 /\ \A i \in DOMAIN FramesBy(t) :
                        LET b == FramesBy(t)[i].bytes
                        IN  /\ Len(b) = 10
                            /\ b[5] = 22
                            /\ Unsigned16(b[6], b[7]) = ClampedMv(op[t].min_value)
                            /\ Unsigned16(b[8], b[9]) = ClampedMv(op[t].max_value)
                            /\ Unsigned16(b[6], b[7]) \in 4500..12000
                            /\ Unsigned16(b[8], b[9]) \in 4500..12000
                            /\ Unsigned16(b[6], b[7]) <= Unsigned16(b[8], b[9])
                 /\ pc[t] = "done" =>
                        (result[t] = ReturnedValue(<<>>) /\ Len(FramesBy(t)) = 1)

C23_Witness ==
    \E t \in Callers :
        /\ Done(t, "cmd")
        /\ op[t].name = "vin_limit_write"
        /\ op[t].min_value = <<0, 1>>
        /\ op[t].max_value = <<74, 10>>
        /\ Len(FramesBy(t)) = 1
        /\ SubSeq(FramesBy(t)[1].bytes, 6, 9) = <<148, 17, 232, 28>>

C23_WitnessRejected ==
    \E t \in Callers :
        /\ Done(t, "cmd")
        /\ op[t].name = "vin_limit_write"
        /\ op[t].min_value = <<12, 1>>
        /\ op[t].max_value = <<6, 1>>
        /\ result[t].type = "ValueError"
        /\ FramesBy(t) = <<>>

(* C24: vin_limit_write returns an error if min_voltage >= max_voltage: a call
   whose minimum voltage equals or exceeds its maximum voltage is rejected and
   writes no frame. *)
C24_VinLimitRejectsNotBelow ==
    \A t \in Callers :
        (op[t].kind = "cmd" /\ op[t].name = "vin_limit_write"
           /\ op[t].min_value[1] * op[t].max_value[2]
                  >= op[t].max_value[1] * op[t].min_value[2]) =>
            /\ FramesBy(t) = <<>>
            /\ pc[t] = "done" =>
                   (result[t].status = "error" /\ result[t].type = "ValueError")

(* Byte b is the rational n / d rounded to a whole number and clamped to
   [50, 100] *)
RoundedClamped(b, n, d) ==
    /\ b \in 50..100
    /\ b > 50 => 2 * n >= (2 * b - 1) * d
    /\ b < 100 => 2 * n <= (2 * b + 1) * d

(* C25: temp_max_limit_write converts a Fahrenheit input to Celsius before
   clamping (Fahrenheit is the default unit), and the single parameter byte
   it sends is in [50, 100] for every input temperature, however far out of
   range. *)
C25_TempMaxLimitWrite ==
    \A t \in Callers :
        (op[t].kind = "cmd" /\ op[t].name = "temp_max_limit_write") =>
            \A i \in DOMAIN FramesBy(t) :
                LET b == FramesBy(t)[i].bytes
                    n == op[t].temp[1]
                    d == op[t].temp[2]
                IN  /\ Len(b) = 7
                    /\ b[5] = 24
                    /\ b[6] \in 50..100
                    /\ op[t].units \in {"F", "f"} =>
                           RoundedClamped(b[6], (n - 32 * d) * 5, 9 * d)
                    /\ op[t].units = "C" => RoundedClamped(b[6], n, d)

(* 150 F is 65.6 C: sent as 66, inside the range *)
C25_Witness ==
    \E t \in Callers :
        /\ Done(t, "cmd")
        /\ op[t].name = "temp_max_limit_write"
        /\ op[t].units = "F"
        /\ op[t].temp = <<150, 1>>
        /\ Len(FramesBy(t)) = 1
        /\ FramesBy(t)[1].bytes[6] = 66

C25_WitnessFar ==
    \E t \in Callers :
        /\ Done(t, "cmd")
        /\ op[t].name = "temp_max_limit_write"
        /\ op[t].temp = <<100000, 1>>
        /\ Len(FramesBy(t)) = 1
        /\ FramesBy(t)[1].bytes[6] = 100

(* ms is the time s = <<n, d>> seconds clamped to [0, 30] s, in milliseconds
   rounded to a whole number *)
MillisOf(s, ms) ==
    /\ ms \in 0..30000
    /\ ms > 0 => 2 * 1000 * s[1] >= (2 * ms - 1) * s[2]
    /\ ms < 30000 => 2 * 1000 * s[1] <= (2 * ms + 1) * s[2]

(* C26: move_time_write and move_time_wait_write clamp the angle to [0, 240]
   degrees (below 0 gives 0, above 240 gives 240, inside unchanged, no error)
   and the time to [0, 30] s before encoding: every frame they write carries
   ticks in [0, 1000] and milliseconds in [0, 30000] as two little-endian
   u16, for any input; move_time_wait_write uses the queued-move opcode 7 and
   never waits. *)
C26_MoveTimeClamps ==
    \A t \in Callers :
        (op[t].kind = "cmd"
           /\ op[t].name \in {"move_time_write", "move_time_wait_write"}) =>
            /\ Len(FramesBy(t)) <= 1
            /\ \A i \in DOMAIN FramesBy(t) :
                   LET b == FramesBy(t)[i].bytes
                   IN  /\ Len(b) = 10
                       /\ b[5] = (IF op[t].name = "move_time_write" THEN 1 ELSE 7)
                       /\ Unsigned16(b[6], b[7]) \in 0..1000
                       /\ TicksOf(op[t].min_value, Unsigned16(b[6], b[7]))
                       /\ Unsigned16(b[8], b[9]) \in 0..30000
                       /\ MillisOf(op[t].time_s, Unsigned16(b[8], b[9]))
                       /\ \A j \in DOMAIN b : b[j] \in ByteRange
            /\ op[t].name = "move_time_wait_write" => trace[t].slept = <<>>
            /\ pc[t] = "done" =>
                   (result[t] = ReturnedValue(<<>>) /\ Len(FramesBy(t)) = 1)

(* 300 degrees for 1000 s goes out as 1000 ticks and 30000 ms, opcode 7 *)
C26_Witness ==
    \E t \in Callers :
        /\ Done(t, "cmd")
        /\ op[t].name = "move_time_wait_write"
        /\ op[t].min_value = <<300, 1>>
        /\ op[t].time_s = <<1000, 1>>
        /\ Len(FramesBy(t)) = 1
        /\ SubSeq(FramesBy(t)[1].bytes, 5, 9) = <<7, 232, 3, 48, 117>>

C26_WitnessWait ==
    \E t \in Callers :
        /\ Done(t, "cmd")
        /\ op[t].name = "move_time_write"
        /\ op[t].wait
        /\ op[t].time_s = <<31, 1>>
        /\ trace[t].slept = <<30, 1>>

(* C27: move_speed_write with speed_dps = 0 fails with an error, the division
   error once its position read has succeeded, and writes no move frame: no
   move of undefined duration is ever sent. *)
C27_ZeroSpeedFails ==
    \A t \in Callers :
        (op[t].kind = "msw" /\ op[t].speed_dps = 0) =>
            /\ MoveFramesBy(t) = <<>>
            /\ Len(FramesBy(t)) <= 1
            /\ pc[t] = "done" =>
                  /\ result[t].status = "error"
                  /\ (trace[t].response.servo_id = op[t].servo_id
                        /\ trace[t].response.command = _SERVO_POS_READ
                        /\ Len(trace[t].response.parameters) = 2) =>
                         result[t].type = "ZeroDivisionError"

(* The position read was answered and the call ended in the division error *)
C27_Witness ==
    \E t \in Callers :
        /\ Done(t, "msw")
        /\ op[t].speed_dps = 0
        /\ result[t].type = "ZeroDivisionError"
        /\ trace[t].response.servo_id = 1
        /\ trace[t].response.command = _SERVO_POS_READ
        /\ Len(FramesBy(t)) = 1
        /\ FramesBy(t)[1].bytes = BuildPacket(1, _SERVO_POS_READ, <<>>)

(* C28: angle_offset_adjust rejects an offset outside [-30, 30] degrees before
   writing anything; for a valid offset it writes the ADJUST frame (opcode 17,
   one signed byte in [-125, 125]) and, only when write is set, after it an
   OFFSET_WRITE frame (opcode 18) to the same address; with write off the
   ADJUST frame is the only one. *)
C28_AngleOffsetAdjust ==
    \A t \in Callers :
        (op[t].kind = "cmd" /\ op[t].name = "angle_offset_adjust") =>
            LET f == FramesBy(t)
                d == op[t].offset_degrees
            IN  IF d \notin -30..30
                THEN /\ f = <<>>
                     /\ pc[t] = "done" => result[t].type = "ValueError"
                ELSE /\ Len(f) <= (IF op[t].write THEN 2 ELSE 1)
                     /\ Len(f) >= 1 =>
                           /\ Len(f[1].bytes) = 7
                           /\ f[1].bytes[3] = op[t].servo_id
                           /\ f[1].bytes[5] = _SERVO_ANGLE_OFFSET_ADJUST
                           /\ UnpackChar(f[1].bytes[6]) \in -125..125
                           /\ 30 * UnpackChar(f[1].bytes[6]) - 125 * d \in -15..15
                     /\ Len(f) = 2 =>
                           f[2].bytes = BuildPacket(op[t].servo_id,
                                                    _SERVO_ANGLE_OFFSET_WRITE, <<>>)
                     /\ (pc[t] = "done" /\ op[t].servo_id \in MIN_ID..MAX_ID) =>
                           /\ result[t] = ReturnedValue(<<>>)
                           /\ Len(f) = (IF op[t].write THEN 2 ELSE 1)

(* -30 degrees persisted: ADJUST with -125, then OFFSET_WRITE *)
C28_Witness ==
    \E t \in Callers :
        /\ Done(t, "cmd")
        /\ op[t].name = "angle_offset_adjust"
        /\ op[t].write
        /\ op[t].offset_degrees = -30
        /\ Len(FramesBy(t)) = 2
        /\ FramesBy(t)[1].bytes[6] = 131
        /\ FramesBy(t)[2].bytes[5] = _SERVO_ANGLE_OFFSET_WRITE

C28_WitnessAdjustOnly ==
    \E t \in Callers :
        /\ Done(t, "cmd")
        /\ op[t].name = "angle_offset_adjust"
        /\ ~op[t].write
        /\ op[t].offset_degrees = 3
        /\ Len(FramesBy(t)) = 1
        /\ FramesBy(t)[1].bytes[6] = 12

C28_WitnessRejected ==
    \E t \in Callers :
        /\ Done(t, "cmd")
        /\ op[t].name = "angle_offset_adjust"
        /\ op[t].offset_degrees = 31
        /\ op[t].servo_id = 1
        /\ result[t].type = "ValueError"
        /\ wire = <<>>

----------------------------------------------------------------------------
(* ServoBus.__exit__: the end of a `with ServoBus(...) as bus:` block *)

(* set_powered(constants.BROADCAST_ID, False), called from __exit__ *)
ExitOp ==
    [NoOp EXCEPT !.kind = "exit", !.name = "set_powered", !.servo_id = BROADCAST_ID,
                 !.state = FALSE]

(* The block is left, after a call that returned or raised or after none:
   try: if self.on_exit_power_off: self.set_powered(BROADCAST_ID, False) *)
ExitBegin(t) ==
    /\ pc[t] = "idle" \/ (pc[t] = "done" /\ op[t].kind = "cmd")
    /\ op' = [op EXCEPT ![t] = ExitOp]
    /\ result' = [result EXCEPT ![t] = NoResult]
    /\ rcv' = [rcv EXCEPT ![t] = NoRcv]
    /\ trace' = [trace EXCEPT ![t] = NoTrace]
    /\ IF on_exit_power_off
       THEN /\ req' = [req EXCEPT ![t] = Marshal(ExitOp).send[1]]
            /\ stack' = [stack EXCEPT ![t] = <<"exit", "cmd", "sp">>]
            /\ pc' = [pc EXCEPT ![t] = "sp_enter"]
       ELSE /\ req' = [req EXCEPT ![t] = NoReq]
            /\ stack' = [stack EXCEPT ![t] = <<"exit">>]
            /\ pc' = [pc EXCEPT ![t] = "exit_finally"]
    /\ UNCHANGED <<cfgvars, lockOwner, lockCount, rxbuf, inflight, next_resp, wire,
                   held>>

(* What __exit__ ends with: the exception of the try block, or None *)
ExitResult(r) == IF r.status = "error" THEN r ELSE ReturnedValue(<<>>)

(* finally: if self._close_on_exit: with self._serial_conn_lock: *)
ExitFinally(t) ==
    /\ pc[t] = "exit_finally"
    /\ IF _close_on_exit
       THEN /\ LockAcquire(t)
            /\ pc' = [pc EXCEPT ![t] = "exit_close"]
            /\ UNCHANGED <<stack, result>>
       ELSE /\ pc' = [pc EXCEPT ![t] = "done"]
            /\ stack' = [stack EXCEPT ![t] = <<>>]
            /\ result' = [result EXCEPT ![t] = ExitResult(@)]
            /\ UNCHANGED <<lockOwner, lockCount, held>>
    /\ UNCHANGED <<cfgvars, rxbuf, inflight, next_resp, wire, op, req, rcv, trace>>

(* self.serial_conn.close() and the end of the with block *)
ExitClose(t) ==
    /\ pc[t] = "exit_close"
    /\ closed' = TRUE
    /\ LockRelease(t, 1)
    /\ pc' = [pc EXCEPT ![t] = "done"]
    /\ stack' = [stack EXCEPT ![t] = <<>>]
    /\ result' = [result EXCEPT ![t] = ExitResult(@)]
    /\ UNCHANGED <<verify_checksum, discard_echo, has_reset, hw_echo,
                   on_exit_power_off, _close_on_exit, self_id, rxbuf, inflight,
                   next_resp, wire, op, req, rcv, trace>>

(* serial_conn.write(servo_packet) raises: the port is gone *)
SendPacketWriteFails(t) ==
    /\ pc[t] = "sp_write"
    /\ Raise(t, Raised("SerialException", "write failed"))
    /\ LockRelease(t, held[t])
    /\ UNCHANGED <<cfgvars, rxbuf, inflight, next_resp, wire, op, req, rcv, trace>>

(* What the block does with the bus before it is left *)
ExitBodyOps == {Cmd("move_start", BROADCAST_ID), Cmd("pos_read", 1)}

ExitResps == {"none", "valid"}

(* One caller in a with block, on a bus that opened its connection or was
   given one, with power-off on exit on or off *)
InitExit ==
    /\ verify_checksum = TRUE
    /\ discard_echo \in BOOLEAN
    /\ hw_echo \in BOOLEAN
    /\ has_reset = TRUE
    /\ on_exit_power_off \in BOOLEAN
    /\ _close_on_exit \in BOOLEAN
    /\ closed = FALSE
    /\ self_id = 1
    /\ lockOwner = 0
    /\ lockCount = 0
    /\ rxbuf = <<>>
    /\ inflight = <<>>
    /\ wire = <<>>
    /\ next_resp \in ExitResps
    /\ pc = [t \in Callers |-> IF t = 1 THEN "idle" ELSE "done"]
    /\ stack = [t \in Callers |-> <<>>]
    /\ op = [t \in Callers |-> NoOp]
    /\ req = [t \in Callers |-> NoReq]
    /\ rcv = [t \in Callers |-> NoRcv]
    /\ result = [t \in Callers |-> NoResult]
    /\ held = [t \in Callers |-> 0]
    /\ trace = [t \in Callers |-> NoTrace]

NextExit ==
    \/ \E t \in Callers, o \in ExitBodyOps : CmdBegin(t, o)
    \/ \E t \in Callers : ExitBegin(t)
    \/ \E t \in Callers : ExitFinally(t)
    \/ \E t \in Callers : ExitClose(t)
    \/ \E t \in Callers : CmdNext(t)
    \/ \E t \in Callers : CmdDecode(t)
    \/ \E t \in Callers : SendPacketEnter(t)
    \/ \E t \in Callers : SendPacketLock(t)
    \/ \E t \in Callers : SendPacketFlush(t)
    \/ \E t \in Callers : SendPacketWrite(t, ExitResps)
    \/ \E t \in Callers : SendPacketWriteFails(t)
    \/ \E t \in Callers : SendPacketEcho(t)
    \/ \E t \in Callers : SendPacketUnlock(t)
    \/ \E t \in Callers : ReceivePacketLock(t)
    \/ \E t \in Callers : ReceivePacketHeader(t)
    \/ \E t \in Callers : ReceivePacketFields(t)
    \/ \E t \in Callers : ReceivePacketParams(t)
    \/ \E t \in Callers : ReceivePacketChecksum(t)
    \/ \E t \in Callers : ReceivePacketUnlock(t)
    \/ \E t \in Callers : SendAndReceiveLock(t)
    \/ \E t \in Callers : SendAndReceiveUnlock(t)
    \/ Arrive

SpecExit == InitExit /\ [][NextExit]_vars

(* The broadcast torque-off frame is on the wire *)
PowerOffWritten ==
    \E i \in DOMAIN wire :
        wire[i].bytes = BuildPacket(BROADCAST_ID, _SERVO_LOAD_OR_UNLOAD_WRITE, <<0>>)

(* C29: on context exit with on_exit_power_off set, the broadcast torque-off
   frame is already written when the connection is about to be closed (unless
   the send raised); a connection the bus opened itself is closed by the end
   of __exit__ even when the power-off send raised; a connection the caller
   supplied is never closed. *)
C29_ExitOrder ==
    /\ ~_close_on_exit => ~closed
    /\ closed => \E t \in Callers : Done(t, "exit")
    /\ ~on_exit_power_off => ~PowerOffWritten
    /\ \A t \in Callers :
           op[t].kind = "exit" =>
               /\ (pc[t] = "exit_close" /\ on_exit_power_off
                     /\ result[t].status # "error") =>
                      (PowerOffWritten /\ ~closed)
               /\ (closed /\ on_exit_power_off /\ result[t].status # "error") =>
                      PowerOffWritten
               /\ pc[t] = "done" =>
                      /\ closed = _close_on_exit
                      /\ lockOwner = 0
                      /\ (on_exit_power_off /\ ~PowerOffWritten) =>
                             result[t].type = "SerialException"

(* The power-off send raised and the connection was closed all the same *)
C29_Witness ==
    \E t \in Callers :
        /\ Done(t, "exit")
        /\ on_exit_power_off
        /\ result[t].type = "SerialException"
        /\ ~PowerOffWritten
        /\ closed

C29_WitnessPowerOffThenClose ==
    \E t \in Callers :
        /\ Done(t, "exit")
        /\ result[t] = ReturnedValue(<<>>)
        /\ PowerOffWritten
        /\ closed

C29_WitnessSupplied ==
    \E t \in Callers :
        /\ Done(t, "exit")
        /\ ~_close_on_exit
        /\ PowerOffWritten
        /\ ~closed

----------------------------------------------------------------------------
(* utils._calculate_checksum called on its own, as the tests call it *)

(* _calculate_checksum(servo_id, length, command, parameters): the vectors of
   test_checksum_calculation, the ends of the byte range, sums on both sides
   of a multiple of 256, a full-length parameter block and integers that are
   not bytes *)
ChecksumOps ==
    {[NoOp EXCEPT !.kind = "checksum", !.name = "_calculate_checksum",
                  !.servo_id = a[1], !.length = a[2], !.command = a[3],
                  !.parameters = a[4]] :
        a \in {<<1, 3, _SERVO_POS_READ, <<>> >>,
               <<5, 7, _SERVO_MOVE_TIME_WRITE, <<96, 9, 232, 3>> >>,
               <<-1, 3, _SERVO_POS_READ, <<>> >>,
               <<300, 700, 256, <<7>> >>}
           \cup {<<i, n, c, p>> :
                   i \in {0, 1, BROADCAST_ID}, n \in {0, 3, 255}, c \in {0, 252, 255},
                   p \in {<<>>, <<255>>, <<1, 2>>, Fill(255, 252)}}}

(* Two callers each hold the arguments of one call *)
InitChecksum ==
    /\ on_exit_power_off = TRUE
    /\ _close_on_exit = TRUE
    /\ closed = FALSE
    /\ self_id = 1
    /\ lockOwner = 0
    /\ lockCount = 0
    /\ rxbuf = <<>>
    /\ inflight = <<>>
    /\ wire = <<>>
    /\ stack = [t \in Callers |-> <<>>]
    /\ req = [t \in Callers |-> NoReq]
    /\ rcv = [t \in Callers |-> NoRcv]
    /\ result = [t \in Callers |-> NoResult]
    /\ held = [t \in Callers |-> 0]
    /\ trace = [t \in Callers |-> NoTrace]
    /\ verify_checksum = TRUE
    /\ discard_echo = TRUE
    /\ hw_echo = TRUE
    /\ has_reset = TRUE
    /\ next_resp = "none"
    /\ \E a \in ChecksumOps, b \in ChecksumOps :
          op = [t \in Callers |-> IF t = 1 THEN a ELSE IF t = 2 THEN b ELSE NoOp]
    /\ pc = [t \in Callers |-> IF t \in {1, 2} THEN "idle" ELSE "done"]

Checksum(t) ==
    /\ pc[t] = "idle"
    /\ op[t].kind = "checksum"
    /\ result' = [result EXCEPT ![t] =
                    ReturnedValue(<<_calculate_checksum(op[t].servo_id, op[t].length,
                                                        op[t].command,
                                                        op[t].parameters)>>)]
    /\ pc' = [pc EXCEPT ![t] = "done"]
    /\ UNCHANGED <<cfgvars, lockOwner, lockCount, rxbuf, inflight, next_resp, wire,
                   stack, op, req, rcv, held, trace>>

NextChecksum == \E t \in Callers : Checksum(t)

SpecChecksum == InitChecksum /\ [][NextChecksum]_vars

(* Bit i of the two's complement representation of x *)
BitOf(x, i) == (x \div (2 ^ i)) % 2

(* C30: _calculate_checksum(servo_id, length, command, parameters) is the
   bitwise complement of servo_id + length + command + sum(parameters) masked
   to 8 bits: each of its 8 bits is the opposite of the sum's bit and no
   higher bit is set, so it lies in [0, 255]; the same inputs give the same
   output. *)
C30_Checksum ==
    \A t \in Callers :
        Done(t, "checksum") =>
            LET c == result[t].value[1]
                x == op[t].servo_id + op[t].length + op[t].command
                       + Sum(op[t].parameters)
            IN  /\ c \in 0..255
                /\ \A i \in 0..7 : BitOf(c, i) = 1 - BitOf(x, i)
                /\ \A u \in Callers :
                       (Done(u, "checksum") /\ op[u] = op[t]) =>
                           result[u].value = result[t].value

(* The test's second vector computed twice: 5 + 7 + 1 + 0x60 + 0x09 + 0xe8 +
   0x03 = 353, whose low byte 0x61 complements to 0x9e *)
C30_Witness ==
    /\ Done(1, "checksum")
    /\ Done(2, "checksum")
    /\ op[1] = op[2]
    /\ op[1].parameters = <<96, 9, 232, 3>>
    /\ result[1].value = <<158>>
    /\ result[2].value = <<158>>

C30_WitnessNegative ==
    \E t \in Callers :
        /\ Done(t, "checksum")
        /\ op[t].servo_id = -1
        /\ result[t].value = <<225>>

----------------------------------------------------------------------------
(* utils._degrees_to_ticks and utils._ticks_to_degrees called on their own,
   as test_conversions calls them *)

(* Angles of [0, 240] degrees in steps of 1, 1/8 and 1/25 degree; 6/25 of a
   degree is one tick *)
DegreeArgs == {<<n, d>> : n \in 0..(MAX_ANGLE_DEGREES * 25), d \in {1, 8, 25}}

ConvertOps ==
    {[NoOp EXCEPT !.kind = "convert", !.name = "_degrees_to_ticks", !.min_value = a] :
        a \in {x \in DegreeArgs : x[1] <= MAX_ANGLE_DEGREES * x[2]}}

InitConvert ==
    /\ on_exit_power_off = TRUE
    /\ _close_on_exit = TRUE
    /\ closed = FALSE
    /\ self_id = 1
    /\ verify_checksum = TRUE
    /\ discard_echo = TRUE
    /\ hw_echo = TRUE
    /\ has_reset = TRUE
    /\ next_resp = "none"
    /\ lockOwner = 0
    /\ lockCount = 0
    /\ rxbuf = <<>>
    /\ inflight = <<>>
    /\ wire = <<>>
    /\ stack = [t \in Callers |-> <<>>]
    /\ req = [t \in Callers |-> NoReq]
    /\ rcv = [t \in Callers |-> NoRcv]
    /\ result = [t \in Callers |-> NoResult]
    /\ held = [t \in Callers |-> 0]
    /\ trace = [t \in Callers |-> NoTrace]
    /\ \E o \in ConvertOps : op = [t \in Callers |-> IF t = 1 THEN o ELSE NoOp]
    /\ pc = [t \in Callers |-> IF t = 1 THEN "idle" ELSE "done"]

(* ticks = utils._degrees_to_ticks(degrees) *)
DegreesToTicks(t) ==
    /\ pc[t] = "idle"
    /\ op[t].kind = "convert"
    /\ result' = [result EXCEPT ![t] =
                    ReturnedValue(<<_degrees_to_ticks_q(op[t].min_value)>>)]
    /\ pc' = [pc EXCEPT ![t] = "ticks"]
    /\ UNCHANGED <<cfgvars, lockOwner, lockCount, rxbuf, inflight, next_resp, wire,
                   stack, op, req, rcv, held, trace>>

(* degrees = utils._ticks_to_degrees(ticks) *)
TicksToDegrees(t) ==
    /\ pc[t] = "ticks"
    /\ result' = [result EXCEPT ![t] =
                    ReturnedValue(_ticks_to_degrees(result[t].value[1]))]
    /\ pc' = [pc EXCEPT ![t] = "done"]
    /\ UNCHANGED <<cfgvars, lockOwner, lockCount, rxbuf, inflight, next_resp, wire,
                   stack, op, req, rcv, held, trace>>

NextConvert ==
    \/ \E t \in Callers : DegreesToTicks(t)
    \/ \E t \in Callers : TicksToDegrees(t)

SpecConvert == InitConvert /\ [][NextConvert]_vars

(* deg * 1000 / 240 is a whole number for deg = <<n, d>> *)
WholeTicks(a) == (1000 * a[1]) % (MAX_ANGLE_DEGREES * a[2]) = 0

(* C31: for every deg in [0, 240], _degrees_to_ticks(deg) is
   floor(deg * 1000 / 240) and lies in [0, 1000]; _ticks_to_degrees of it is
   at most deg and less than 0.24 degrees below it; the round trip gives deg
   back exactly where deg * 1000 / 240 is a whole number and only there. *)
C31_DegreesRoundTrip ==
    \A t \in Callers :
        op[t].kind = "convert" =>
            LET a == op[t].min_value
            IN  /\ pc[t] = "ticks" =>
                      /\ result[t].value[1] \in 0..1000
                      /\ TicksOf(a, result[t].value[1])
                /\ pc[t] = "done" =>
                      LET back == result[t].value
                          gap == a[1] * back[2] - back[1] * a[2]
                      IN  /\ back[2] > 0
                          /\ gap >= 0
                          /\ 100 * gap < 24 * a[2] * back[2]
                          /\ (gap = 0) <=> WholeTicks(a)

(* 120 degrees comes back as 120 degrees *)
C31_Witness ==
    \E t \in Callers :
        /\ Done(t, "convert")
        /\ op[t].min_value = <<120, 1>>
        /\ result[t].value = <<500 * 240, 1000>>

(* 239.875 degrees is 999 ticks and comes back as 239.76 degrees *)
C31_WitnessInexact ==
    \E t \in Callers :
        /\ Done(t, "convert")
        /\ op[t].min_value = <<1919, 8>>
        /\ result[t].value = <<999 * 240, 1000>>

TempCommands == {"temp_read", "temp_max_limit_read", "temp_max_limit_write"}

(* C32: _validate_temp_units accepts exactly 'c', 'C', 'f' and 'F', returning
   the uppercase letter, and raises ValueError for every other unit string;
   temp_read, temp_max_limit_read and temp_max_limit_write validate the unit
   before anything is written to the transport. *)
C32_TempUnits ==
    \A t \in Callers :
        /\ Done(t, "validate") =>
              /\ op[t].units \in {"c", "C"} => result[t] = ReturnedValue(<<"C">>)
              /\ op[t].units \in {"f", "F"} => result[t] = ReturnedValue(<<"F">>)
              /\ op[t].units \notin {"c", "C", "f", "F"} =>
                     (result[t].status = "error" /\ result[t].type = "ValueError")
        /\ (op[t].kind = "cmd" /\ op[t].name \in TempCommands
              /\ op[t].units \notin {"c", "C", "f", "F"}) =>
              /\ FramesBy(t) = <<>>
              /\ NothingRead(t)
              /\ pc[t] = "done"
              /\ result[t].type = "ValueError"
              /\ result[t].msg = "Units must be either C or F"
        /\ (op[t].kind = "cmd" /\ op[t].name \in TempCommands
              /\ op[t].units \in {"c", "C", "f", "F"}
              /\ op[t].servo_id \in MIN_ID..MAX_ID /\ pc[t] = "done") =>
              Len(FramesBy(t)) = 1

(* A lower-case unit is accepted and comes back in upper case *)
C32_Witness ==
    \E t \in Callers :
        /\ Done(t, "validate")
        /\ op[t].units = "c"
        /\ result[t] = ReturnedValue(<<"C">>)

(* temp_max_limit_read with a unit that is no unit: nothing was written *)
C32_WitnessRejected ==
    \E t \in Callers :
        /\ Done(t, "cmd")
        /\ op[t].name = "temp_max_limit_read"
        /\ op[t].units = "Celsius"
        /\ result[t].type = "ValueError"
        /\ wire = <<>>

C32_WitnessRead ==
    \E t \in Callers :
        /\ Done(t, "cmd")
        /\ op[t].name = "temp_max_limit_read"
        /\ op[t].units = "f"
        /\ result[t].status = "ok"
        /\ Len(wire) = 1

(* s is an initial part of q *)
IsPrefix(s, q) == Len(s) <= Len(q) /\ s = SubSeq(q, 1, Len(s))

(* The transport calls of one _send_packet writing n bytes *)
SendSteps(n) ==
    (IF has_reset THEN <<Called("reset_input_buffer", 0, 0)>> ELSE <<>>)
    \o <<Called("write", n, n)>>

(* C33: the transport steps of _send_packet come in the order flush of the
   stale input, write of the frame, then, only when discard_echo is set, one
   read asking for exactly as many bytes as were written; with discard_echo
   off it reads nothing, so it consumes no byte of the response. *)
C33_SendSteps ==
    /\ \A t \in Callers :
        op[t].kind = "send" =>
            LET n == Len(BuildPacket(op[t].servo_id, op[t].command,
                                     op[t].parameters))
                calls == trace[t].calls
            IN  /\ Len(calls) <= Len(SendSteps(n)) =>
                       IsPrefix(calls, SendSteps(n))
                /\ Len(calls) > Len(SendSteps(n)) =>
                       /\ discard_echo
                       /\ Len(calls) = Len(SendSteps(n)) + 1
                       /\ SubSeq(calls, 1, Len(SendSteps(n))) = SendSteps(n)
                       /\ calls[Len(calls)].method = "read"
                       /\ calls[Len(calls)].n = n
                /\ (pc[t] = "done" /\ result[t].status = "ok") =>
                       /\ Len(calls) = Len(SendSteps(n)) + (IF discard_echo THEN 1 ELSE 0)
                       /\ Len(FramesBy(t)) = 1
                /\ ~discard_echo =>
                       \A i \in DOMAIN calls : calls[i].method # "read"
    /\ \A t \in Callers :
           op[t].kind = "sr" =>
               LET n == Len(BuildPacket(op[t].servo_id, op[t].command,
                                        op[t].parameters))
                   calls == trace[t].calls
                   k == Len(SendSteps(n))
               IN  /\ Len(calls) <= k => IsPrefix(calls, SendSteps(n))
                   /\ Len(calls) > k =>
                          /\ SubSeq(calls, 1, k) = SendSteps(n)
                          /\ discard_echo => calls[k + 1] =
                                 Called("read", n, calls[k + 1].got)
                   /\ pc[t] \in {"sp_unlock", "rp_lock"} =>
                          Len(calls) = k + (IF discard_echo THEN 1 ELSE 0)

(* Flush, write of 6 bytes, read of 6 bytes *)
C33_Witness ==
    \E t \in Callers :
        /\ Done(t, "send")
        /\ discard_echo
        /\ has_reset
        /\ Len(trace[t].calls) = 3
        /\ trace[t].calls[1].method = "reset_input_buffer"
        /\ trace[t].calls[2] = Called("write", 6, 6)
        /\ trace[t].calls[3].method = "read"
        /\ trace[t].calls[3].n = 6

(* discard_echo off on a line that echoes: the echo stays unread *)
C33_WitnessNoRead ==
    \E t \in Callers :
        /\ Done(t, "send")
        /\ ~discard_echo
        /\ hw_echo
        /\ has_reset
        /\ Len(trace[t].calls) = 2
        /\ inflight \o <<rxbuf>> # <<<<>>>>

(* C34: on a transport without reset_input_buffer, _send_packet goes on: the
   frame is written, the echo is read off when discard_echo is set, and no
   error reaches the caller. *)
C34_MissingResetTolerated ==
    \A t \in Callers :
        /\ result[t].type # "AttributeError"
        /\ (~has_reset /\ Done(t, "send")
              /\ ValidSendArgs(op[t].servo_id, op[t].command)) =>
              /\ result[t].status = "ok"
              /\ Len(FramesBy(t)) = 1
              /\ FramesBy(t)[1].bytes =
                     BuildPacket(op[t].servo_id, op[t].command, op[t].parameters)
              /\ trace[t].calls[1] = Called("write", 6, 6)
              /\ Len(trace[t].calls) = (IF discard_echo THEN 2 ELSE 1)
              /\ discard_echo => trace[t].calls[2].method = "read"
        /\ (~has_reset /\ op[t].kind = "sr" /\ trace[t].calls # <<>>) =>
              /\ trace[t].calls[1] = Called("write", 6, 6)
              /\ Len(FramesBy(t)) = 1

(* No reset_input_buffer: written, echo read off, returned *)
C34_Witness ==
    \E t \in Callers :
        /\ Done(t, "send")
        /\ ~has_reset
        /\ discard_echo
        /\ result[t].status = "ok"
        /\ Len(wire) = 1
        /\ Len(trace[t].calls) = 2
        /\ trace[t].calls[2].method = "read"

----------------------------------------------------------------------------
(* One caller on a transport whose write and read may raise *)

(* serial_conn.read(...) raises inside _send_packet or _receive_packet *)
TransportReadFails(t) ==
    /\ pc[t] \in {"sp_echo", "rp_header", "rp_fields", "rp_params", "rp_cksum"}
    /\ Raise(t, Raised("SerialException", "read failed"))
    /\ LockRelease(t, held[t])
    /\ UNCHANGED <<cfgvars, rxbuf, inflight, next_resp, wire, op, req, rcv, trace>>

NextFault ==
    \/ NextCall
    \/ \E t \in Callers : SendPacketWriteFails(t)
    \/ \E t \in Callers : TransportReadFails(t)

SpecFault == InitCall /\ [][NextFault]_vars

(* C35: the bus lock is released on every way out: once _send_packet,
   _receive_packet or _send_and_receive_packet has returned or raised
   (timeout, checksum mismatch, address or opcode mismatch, invalid argument,
   exception of the transport), the caller holds no acquisition of it, and
   when no call is in progress the lock is free. *)
C35_LockReleased ==
    /\ \A t \in Callers :
           /\ pc[t] \in {"idle", "done"} => (held[t] = 0 /\ lockOwner # t)
           /\ lockOwner = t => lockCount = held[t]
           /\ lockOwner # t => held[t] = 0
    /\ (\A t \in Callers : pc[t] \in {"idle", "done"}) =>
           (lockOwner = 0 /\ lockCount = 0)

(* The transport raised under two nested with blocks and the lock is free *)
C35_Witness ==
    \E t \in Callers :
        /\ Done(t, "sr")
        /\ result[t].type = "SerialException"
        /\ trace[t].writes = 0
        /\ lockOwner = 0
        /\ lockCount = 0

C35_WitnessChecksum ==
    \E t \in Callers :
        /\ Done(t, "sr")
        /\ result[t].msg = "Checksum failed"
        /\ lockOwner = 0

C35_WitnessMismatch ==
    \E t \in Callers :
        /\ Done(t, "sr")
        /\ result[t].msg = "command does not match"
        /\ lockOwner = 0

C35_WitnessTimeout ==
    \E t \in Callers :
        /\ Done(t, "sr")
        /\ "header" \in trace[t].short
        /\ result[t].status = "error"
        /\ lockOwner = 0

C35_WitnessInvalid ==
    \E t \in Callers :
        /\ Done(t, "send")
        /\ result[t].type = "ValueError"
        /\ lockOwner = 0

C35_WitnessReturned ==
    \E t \in Callers :
        /\ Done(t, "sr")
        /\ result[t].status = "ok"
        /\ lockOwner = 0

----------------------------------------------------------------------------
(* Concurrent callers under fair scheduling *)

(* Requests of the concurrent callers: a broadcast move_start and a position
   read of the servo on the bus *)
LiveOps ==
    {o \in SendOps : o.servo_id = BROADCAST_ID} \cup {o \in SrOps : o.servo_id = 2}

(* The device answers a read in time, late or never *)
LiveResps == {"valid", "none"}

InitLive ==
    /\ InitBus
    /\ verify_checksum = TRUE
    /\ discard_echo = TRUE
    /\ hw_echo = TRUE
    /\ has_reset = TRUE
    /\ next_resp \in LiveResps
    /\ pc = [t \in Callers |-> "idle"]

(* The steps of caller t once its call has begun *)
CallerStep(t) ==
    \/ SendPacketEnter(t)
    \/ SendPacketFlush(t)
    \/ SendPacketWrite(t, LiveResps)
    \/ SendPacketEcho(t)
    \/ SendPacketUnlock(t)
    \/ ReceivePacketHeader(t)
    \/ ReceivePacketFields(t)
    \/ ReceivePacketParams(t)
    \/ ReceivePacketChecksum(t)
    \/ ReceivePacketUnlock(t)
    \/ SendAndReceiveUnlock(t)

NextLive ==
    \/ \E t \in Callers, o \in LiveOps : Begin(t, o)
    \/ \E t \in Callers : CallerStep(t)
    \/ \E t \in Callers : LockStep(t)
    \/ Arrive

(* Every thread keeps running: a read returns when its timeout expires, with
   or without bytes, and a thread whose next step is to take the lock takes it
   if the lock stays free *)
Fairness ==
    \A t \in Callers : WF_vars(CallerStep(t) \/ LockStep(t))

SpecLive == InitLive /\ [][NextLive]_vars /\ Fairness

(* C36: under fair scheduling, with reads that always return, every request
   of every concurrent caller completes, by returning or by raising: no
   caller waits for the lock forever and no _receive_packet reads forever. *)
C36_EveryRequestCompletes ==
    \A t \in Callers : (pc[t] # "idle") ~> (pc[t] = "done")

(* Two callers are done, one after a timeout, and one had to wait for the
   lock *)
C36_Witness ==
    \E t \in Callers : \E u \in Callers :
        /\ t # u
        /\ Done(t, "sr")
        /\ Done(u, "sr")
        /\ result[t].status = "error"
        /\ result[u].status = "ok"
        /\ lockOwner = 0

C36_WitnessWaiting ==
    \E t \in Callers : \E u \in Callers :
        /\ t # u
        /\ pc[t] = "sr_lock"
        /\ lockOwner = u
        /\ pc[u] = "rp_header"

----------------------------------------------------------------------------
(* The bytes one _receive_packet takes from the stream *)

RECURSIVE BytesGot(_)
BytesGot(calls) ==
    IF calls = <<>> THEN 0
    ELSE (IF Head(calls).method = "read" THEN Head(calls).got ELSE 0)
         + BytesGot(Tail(calls))

(* Everything the device has sent or is sending, in order *)
Incoming(stream, late) == IF late = <<>> THEN stream ELSE stream \o Head(late)

(* C37: _receive_packet consumes exactly one frame: a decode that returns a
   frame whose length field is L has read L + 3 bytes from the header on (2
   header, 3 fixed fields, L - 3 parameters, 1 checksum) and nothing after the
   checksum, so what the next _receive_packet finds is what followed the frame
   in the stream, a second frame included. *)
C37_DecodeConsumesFrame ==
    \A t \in Callers :
        (Done(t, "recv") /\ result[t].status = "ok")
            => /\ BytesGot(trace[t].calls) = rcv[t].length + 3
               /\ Incoming(rxbuf, inflight)
                    = Drop(Incoming(op[t].stream, op[t].late), rcv[t].length + 3)

(* The same for decodes none of whose reads came back short *)
C37_FullReadsConsumeFrame ==
    \A t \in Callers :
        (Done(t, "recv") /\ result[t].status = "ok" /\ trace[t].short = {})
            => /\ BytesGot(trace[t].calls) = rcv[t].length + 3
               /\ Incoming(rxbuf, inflight)
                    = Drop(Incoming(op[t].stream, op[t].late), rcv[t].length + 3)

(* A frame was returned and a second frame is what is left in the stream *)
C37_WitnessSecondFrame ==
    \E t \in Callers : \E a \in GoodFrameArgs : \E b \in GoodFrameArgs :
        /\ Done(t, "recv")
        /\ result[t] = Returned(PacketOf(a))
        /\ op[t].stream = FrameOf(a) \o FrameOf(b)
        /\ rxbuf = FrameOf(b)

----------------------------------------------------------------------------
(* Round trip: what _send_packet writes, read back by _receive_packet *)

(* The longest parameter sequence whose length byte fits *)
MaxParams == 252

Ramp(n) == [i \in 1..n |-> (i * 7) % 256]

RoundParams ==
    {<<>>, <<0>>, <<255>>, _PACKET_HEADER, <<232, 3, 244, 1>>,
     _PACKET_HEADER \o <<1, 3, 14, 237>>, Ramp(100), Ramp(MaxParams - 1),
     Ramp(MaxParams), Fill(0, MaxParams), Fill(255, MaxParams),
     Fill(SYNC, MaxParams)}

RoundOps ==
    {[NoOp EXCEPT !.kind = "send", !.name = "_send_packet", !.servo_id = i,
                  !.command = c, !.parameters = p] :
        i \in {MIN_ID, 1, SYNC, MAX_ID, BROADCAST_ID}, c \in {0, 1, 28, SYNC, 255},
        p \in RoundParams}

(* A loop-back line: nothing answers and nothing is echoed by the hardware; the
   caller hands the written bytes to the reader itself *)
InitRound ==
    /\ on_exit_power_off = TRUE
    /\ _close_on_exit = TRUE
    /\ closed = FALSE
    /\ self_id = 1
    /\ lockOwner = 0
    /\ lockCount = 0
    /\ rxbuf = <<>>
    /\ inflight = <<>>
    /\ wire = <<>>
    /\ verify_checksum = TRUE
    /\ discard_echo = FALSE
    /\ hw_echo = FALSE
    /\ has_reset = TRUE
    /\ next_resp = "none"
    /\ \E o \in RoundOps :
          /\ op = [t \in Callers |-> IF t = 1 THEN o ELSE NoOp]
          /\ req = [t \in Callers |-> IF t = 1 THEN ReqOf(o) ELSE NoReq]
    /\ pc = [t \in Callers |-> IF t = 1 THEN "sp_enter" ELSE "done"]
    /\ stack = [t \in Callers |-> IF t = 1 THEN <<"sp">> ELSE <<>>]
    /\ rcv = [t \in Callers |-> NoRcv]
    /\ result = [t \in Callers |-> NoResult]
    /\ held = [t \in Callers |-> 0]
    /\ trace = [t \in Callers |-> NoTrace]

(* The bytes of the last write are put into the input and _receive_packet is
   called *)
FeedBack(t) ==
    /\ pc[t] = "done"
    /\ op[t].kind = "send"
    /\ result[t] = Returned(NoPacket)
    /\ wire # <<>>
    /\ rxbuf' = wire[Len(wire)].bytes
    /\ inflight' = <<>>
    /\ pc' = [pc EXCEPT ![t] = "rp_lock"]
    /\ stack' = [stack EXCEPT ![t] = <<"rp">>]
    /\ result' = [result EXCEPT ![t] = NoResult]
    /\ UNCHANGED <<cfgvars, lockOwner, lockCount, next_resp, wire, op, req, rcv,
                   held, trace>>

NextRound ==
    \/ \E t \in Callers : SendPacketEnter(t)
    \/ \E t \in Callers : SendPacketLock(t)
    \/ \E t \in Callers : SendPacketFlush(t)
    \/ \E t \in Callers : SendPacketWrite(t, {"none"})
    \/ \E t \in Callers : SendPacketUnlock(t)
    \/ \E t \in Callers : FeedBack(t)
    \/ \E t \in Callers : ReceivePacketLock(t)
    \/ \E t \in Callers : ReceivePacketHeader(t)
    \/ \E t \in Callers : ReceivePacketFields(t)
    \/ \E t \in Callers : ReceivePacketParams(t)
    \/ \E t \in Callers : ReceivePacketChecksum(t)
    \/ \E t \in Callers : ReceivePacketUnlock(t)

SpecRound == InitRound /\ [][NextRound]_vars

(* The call of _receive_packet on the written bytes is over *)
ReadBack(t) ==
    /\ pc[t] = "done"
    /\ op[t].kind = "send"
    /\ trace[t].writes = 1
    /\ result[t] # Returned(NoPacket)

(* C38: frame round trip: for an address in 0..254, an opcode in 0..255 and at
   most 252 parameter bytes, _receive_packet on the bytes _send_packet wrote
   returns exactly (address, opcode, parameters), the checksum being verified
   and accepted. *)
C38_FrameRoundTrip ==
    \A t \in Callers :
        ReadBack(t)
            => /\ result[t] = Returned(ReqOf(op[t]))
               /\ verify_checksum
               /\ rcv[t].checksum = _calculate_checksum(op[t].servo_id,
                                        3 + Len(op[t].parameters), op[t].command,
                                        op[t].parameters)
               /\ BytesGot(trace[t].calls) = Len(wire[1].bytes)

(* The longest frame to the broadcast address came back *)
C38_Witness ==
    \E t \in Callers :
        /\ ReadBack(t)
        /\ op[t].servo_id = BROADCAST_ID
        /\ op[t].command = 255
        /\ Len(op[t].parameters) = MaxParams
        /\ rcv[t].length = 255
        /\ result[t].packet.parameters = Fill(255, MaxParams)

(* A frame without parameters, and one whose parameters hold a whole frame *)
C38_WitnessEmpty ==
    \E t \in Callers :
        /\ ReadBack(t)
        /\ op[t].servo_id = MIN_ID
        /\ op[t].command = 0
        /\ result[t] = Returned(Frame(MIN_ID, 0, <<>>))

C38_WitnessNested ==
    \E t \in Callers :
        /\ ReadBack(t)
        /\ result[t].packet.parameters = _PACKET_HEADER \o <<1, 3, 14, 237>>

----------------------------------------------------------------------------
(* Servo: a handle that remembers one servo's id *)

(* Frames written through the handle in one behaviour *)
MaxHandleFrames == 3

(* Methods called on the handle; the bus call gets self.id prepended *)
HandleOps ==
    {[Cmd("id_write", -1) EXCEPT !.new_id = n] : n \in {1, 2, 3, BROADCAST_ID}}
    \cup {[Cmd("move_time_write", -1) EXCEPT !.min_value = <<120, 1>>,
                                            !.time_s = <<1, 1>>]}
    \cup {Cmd("move_start", -1)}

(* self.bus.<method>(self.id, ...) *)
ServoCall(t, m) ==
    /\ Len(wire) < MaxHandleFrames
    /\ CmdBegin(t, [m EXCEPT !.servo_id = self_id])

PropagatesNever(r) == FALSE

(* An exception raised by the bus call leaves the method of the handle at once *)
Propagates(r) == r.status = "error"

(* The bus call is over: id_write goes on to self.id = new_id, the other
   methods return *)
ServoReturn(t) ==
    /\ pc[t] = "done"
    /\ op[t].kind = "cmd"
    /\ self_id' = IF op[t].name = "id_write" /\ ~Propagates(result[t])
                  THEN op[t].new_id
                  ELSE self_id
    /\ pc' = [pc EXCEPT ![t] = "idle"]
    /\ trace' = [trace EXCEPT ![t] = NoTrace]
    /\ UNCHANGED <<verify_checksum, discard_echo, has_reset, hw_echo,
                   on_exit_power_off, _close_on_exit, closed, lockOwner, lockCount,
                   rxbuf, inflight, next_resp, wire, stack, op, req, rcv, result,
                   held>>

InitServo ==
    /\ InitBus
    /\ verify_checksum = TRUE
    /\ discard_echo = TRUE
    /\ hw_echo = TRUE
    /\ has_reset = TRUE
    /\ next_resp = "none"
    /\ pc = [t \in Callers |-> IF t = 1 THEN "idle" ELSE "done"]

NextServo ==
    \/ \E t \in Callers, m \in HandleOps : ServoCall(t, m)
    \/ \E t \in Callers : ServoReturn(t)
    \/ \E t \in Callers : CmdNext(t)
    \/ \E t \in Callers : SendPacketEnter(t)
    \/ \E t \in Callers : SendPacketLock(t)
    \/ \E t \in Callers : SendPacketFlush(t)
    \/ \E t \in Callers : SendPacketWrite(t, {"none"})
    \/ \E t \in Callers : SendPacketWriteFails(t)
    \/ \E t \in Callers : SendPacketEcho(t)
    \/ \E t \in Callers : SendPacketUnlock(t)
    \/ Arrive

SpecServo == InitServo /\ [][NextServo]_vars

(* The bus call of caller t has ended and its method of the handle ends now *)
HandleMethodEnds(t) == pc[t] = "done" /\ op[t].kind = "cmd" /\ pc'[t] = "idle"

(* C39: the handle tracks its id: Servo.id_write(new) sets the handle's id to
   new only once the bus id_write has returned without error, a bus call that
   raises leaves the id as it was, no other method changes it, and every
   command issued through the handle, and every frame it writes, is addressed
   to the handle's current id. *)
C39_HandleIdTracked ==
    [][/\ \A t \in Callers :
            HandleMethodEnds(t)
                => self_id' = IF op[t].name = "id_write" /\ result[t].status = "ok"
                              THEN op[t].new_id
                              ELSE self_id
       /\ (self_id' # self_id) => \E t \in Callers : HandleMethodEnds(t)
       /\ \A t \in Callers :
            (pc[t] = "idle" /\ pc'[t] # "idle") => op'[t].servo_id = self_id
       /\ Len(wire') > Len(wire) => wire'[Len(wire')].bytes[3] = self_id
      ]_vars

(* After id_write(2) took effect a move_time_write went out to servo 2 *)
C39_Witness ==
    \E t \in Callers :
        /\ self_id = 2
        /\ Len(wire) = 2
        /\ wire[1].bytes = BuildPacket(1, _SERVO_ID_WRITE, <<2>>)
        /\ wire[2].bytes[3] = 2
        /\ wire[2].bytes[5] = _SERVO_MOVE_TIME_WRITE
        /\ pc[t] = "idle"

(* id_write(254) was refused by the bus, the handle kept its id and the next
   command went to it *)
C39_WitnessRaised ==
    \E t \in Callers :
        /\ self_id = 1
        /\ pc[t] = "idle"
        /\ op[t].name = "id_write"
        /\ op[t].new_id = BROADCAST_ID
        /\ result[t].status = "error"
        /\ wire = <<>>

(* The write of the id_write frame failed and the handle kept its id *)
C39_WitnessWriteFailed ==
    \E t \in Callers :
        /\ self_id = 1
        /\ pc[t] = "idle"
        /\ op[t].name = "id_write"
        /\ op[t].new_id = 2
        /\ result[t].type = "SerialException"

====
